---- MODULE Spec2Model ----
(***************************************************************************)
(* pyproject_installer: the build front-end's hook call over a pipe        *)
(* (build_cmd/_build.py, build_cmd/helper/backend_caller.py) and the wheel *)
(* installer's validation (install_cmd/_install.py).                       *)
(*                                                                         *)
(* Bytes and characters are integers (byte values, code points); byte      *)
(* strings and texts are sequences of them.                                *)
(***************************************************************************)
EXTENDS Integers, Sequences, FiniteSets, TLC

(***************************************************************************)
(* Bounds of the model.                                                    *)
(***************************************************************************)
\* capacity of the OS pipe, in bytes (scaled down; the payloads are longer)
PipeCapacity == 4
\* longest backend-path list drawn for pyproject.toml
MaxPathEntries == 2
\* symbolic links followed by one resolve() before it gives up (ELOOP)
MaxSymlinks == 3

(***************************************************************************)
(* Small helpers on sequences.                                             *)
(***************************************************************************)
Min(a, b) == IF a <= b THEN a ELSE b

Range(s) == {s[i] : i \in DOMAIN s}

Drop(s, n) == SubSeq(s, n + 1, Len(s))

Take(s, n) == SubSeq(s, 1, n)

IsPrefix(p, s) == Len(p) <= Len(s) /\ Take(s, Len(p)) = p

\* the element of a set of one element
The(S) == CHOOSE x \in S : TRUE

(***************************************************************************)
(* JSON values: one record shape for all of them.                          *)
(*   k = "str": s the characters;  k = "num": s the number's text;         *)
(*   k = "list": items the elements;  k = "obj": items = key1, value1, ... *)
(*   k = "null" | "true" | "false" | "NaN" | "Infinity" | "-Infinity"      *)
(***************************************************************************)
JAtom(kind) == [k |-> kind, s |-> <<>>, items |-> <<>>]

JNull == JAtom("null")

JStr(chars) == [k |-> "str", s |-> chars, items |-> <<>>]

JNum(text) == [k |-> "num", s |-> text, items |-> <<>>]

JList(xs) == [k |-> "list", s |-> <<>>, items |-> xs]

JObj(kvs) == [k |-> "obj", s |-> <<>>, items |-> kvs]

\* the characters the texts of this model are written with
Ch == [quote |-> 34, comma |-> 44, minus |-> 45, dot |-> 46, slash |-> 47,
       zero |-> 48, nine |-> 57, colon |-> 58, lbracket |-> 91,
       backslash |-> 92, rbracket |-> 93, lbrace |-> 123, rbrace |-> 125,
       space |-> 32, tab |-> 9, lf |-> 10, cr |-> 13, del |-> 127]

\* the literals of JSON
NullWord == <<110, 117, 108, 108>>

TrueWord == <<116, 114, 117, 101>>

FalseWord == <<102, 97, 108, 115, 101>>

NaNWord == <<78, 97, 78>>

InfinityWord == <<73, 110, 102, 105, 110, 105, 116, 121>>

NegInfinityWord == <<45>> \o InfinityWord

\* "result"
ResultKey == <<114, 101, 115, 117, 108, 116>>

(***************************************************************************)
(* str.encode("utf-8") and bytes.decode("utf-8") (strict).                 *)
(***************************************************************************)
Utf8Char(c) ==
    IF c < 128 THEN <<c>>
    ELSE IF c < 2048 THEN <<192 + (c \div 64), 128 + (c % 64)>>
    ELSE <<224 + (c \div 4096), 128 + ((c \div 64) % 64), 128 + (c % 64)>>

RECURSIVE Utf8Encode(_)
Utf8Encode(text) ==
    IF text = <<>> THEN <<>>
    ELSE Utf8Char(Head(text)) \o Utf8Encode(Tail(text))

IsCont(b) == b >= 128 /\ b <= 191

\* [ok, text]: ok is FALSE where decode raises UnicodeDecodeError
RECURSIVE Utf8DecodeFrom(_, _, _)
Utf8DecodeFrom(b, i, acc) ==
    IF i > Len(b) THEN [ok |-> TRUE, text |-> acc]
    ELSE IF b[i] < 128 THEN Utf8DecodeFrom(b, i + 1, Append(acc, b[i]))
    ELSE IF b[i] >= 194 /\ b[i] <= 223 /\ i + 1 <= Len(b) /\ IsCont(b[i + 1])
        THEN Utf8DecodeFrom(b, i + 2,
                 Append(acc, (b[i] - 192) * 64 + (b[i + 1] - 128)))
    ELSE IF b[i] >= 224 /\ b[i] <= 239 /\ i + 2 <= Len(b)
            /\ IsCont(b[i + 1]) /\ IsCont(b[i + 2])
            /\ (b[i] = 224 => b[i + 1] >= 160)
            /\ (b[i] = 237 => b[i + 1] <= 159)
        THEN Utf8DecodeFrom(b, i + 3,
                 Append(acc, (b[i] - 224) * 4096 + (b[i + 1] - 128) * 64
                             + (b[i + 2] - 128)))
    ELSE IF b[i] >= 240 /\ b[i] <= 244 /\ i + 3 <= Len(b)
            /\ IsCont(b[i + 1]) /\ IsCont(b[i + 2]) /\ IsCont(b[i + 3])
            /\ (b[i] = 240 => b[i + 1] >= 144)
            /\ (b[i] = 244 => b[i + 1] <= 143)
        THEN Utf8DecodeFrom(b, i + 4,
                 Append(acc, (b[i] - 240) * 262144 + (b[i + 1] - 128) * 4096
                             + (b[i + 2] - 128) * 64 + (b[i + 3] - 128)))
    ELSE [ok |-> FALSE, text |-> <<>>]

Utf8Decode(b) == Utf8DecodeFrom(b, 1, <<>>)

(***************************************************************************)
(* json.dumps with its defaults (ensure_ascii, separators ", " and ": ").  *)
(***************************************************************************)
HexDigit(n) == IF n < 10 THEN 48 + n ELSE 87 + n

\* \uXXXX for a code point of the basic plane
UEscape(c) ==
    <<Ch.backslash, 117, HexDigit((c \div 4096) % 16), HexDigit((c \div 256) % 16),
      HexDigit((c \div 16) % 16), HexDigit(c % 16)>>

EscapeChar(c) ==
    IF c = Ch.quote \/ c = Ch.backslash THEN <<Ch.backslash, c>>
    ELSE IF c = Ch.lf THEN <<Ch.backslash, 110>>
    ELSE IF c = Ch.cr THEN <<Ch.backslash, 114>>
    ELSE IF c = Ch.tab THEN <<Ch.backslash, 116>>
    ELSE IF c = 8 THEN <<Ch.backslash, 98>>
    ELSE IF c = 12 THEN <<Ch.backslash, 102>>
    ELSE IF c < Ch.space \/ c >= Ch.del THEN UEscape(c)
    ELSE <<c>>

RECURSIVE EscapeString(_)
EscapeString(chars) ==
    IF chars = <<>> THEN <<>>
    ELSE EscapeChar(Head(chars)) \o EscapeString(Tail(chars))

RECURSIVE Dumps(_)
RECURSIVE DumpsItems(_, _)
\* the elements of a list, or the key/value pairs of a dict, joined by ", "
DumpsItems(items, isObj) ==
    IF items = <<>> THEN <<>>
    ELSE IF isObj
        THEN Dumps(items[1]) \o <<Ch.colon, Ch.space>> \o Dumps(items[2])
             \o (IF Len(items) > 2 THEN <<Ch.comma, Ch.space>> ELSE <<>>)
             \o DumpsItems(Drop(items, 2), TRUE)
        ELSE Dumps(items[1])
             \o (IF Len(items) > 1 THEN <<Ch.comma, Ch.space>> ELSE <<>>)
             \o DumpsItems(Tail(items), FALSE)

Dumps(v) ==
    CASE v.k = "str" -> <<Ch.quote>> \o EscapeString(v.s) \o <<Ch.quote>>
      [] v.k = "num" -> v.s
      [] v.k = "list" -> <<Ch.lbracket>> \o DumpsItems(v.items, FALSE) \o <<Ch.rbracket>>
      [] v.k = "obj" -> <<Ch.lbrace>> \o DumpsItems(v.items, TRUE) \o <<Ch.rbrace>>
      [] v.k = "null" -> NullWord
      [] v.k = "true" -> TrueWord
      [] v.k = "false" -> FalseWord
      [] v.k = "NaN" -> NaNWord
      [] v.k = "Infinity" -> InfinityWord
      [] v.k = "-Infinity" -> NegInfinityWord

(***************************************************************************)
(* json.loads: the decoder of the standard library (scanner, string,       *)
(* array and object parsers).  Results are [ok, pos, val]; ok is FALSE     *)
(* where the decoder raises JSONDecodeError.  \u escapes are read for the  *)
(* basic plane, surrogate pairs are not combined.                          *)
(***************************************************************************)
JFail == [ok |-> FALSE, pos |-> 0, val |-> JNull]

JOk(p, v) == [ok |-> TRUE, pos |-> p, val |-> v]

Whitespace == {Ch.space, Ch.tab, Ch.lf, Ch.cr}

IsDigit(c) == c >= Ch.zero /\ c <= Ch.nine

IsHex(c) == IsDigit(c) \/ (c >= 97 /\ c <= 102) \/ (c >= 65 /\ c <= 70)

HexVal(c) == IF IsDigit(c) THEN c - 48 ELSE IF c >= 97 THEN c - 87 ELSE c - 55

\* backslash escapes of one character: the character after the backslash
SimpleEscapes == {Ch.quote, Ch.backslash, Ch.slash, 98, 102, 110, 114, 116}

Unescape(e) ==
    CASE e = 98 -> 8
      [] e = 102 -> 12
      [] e = 110 -> Ch.lf
      [] e = 114 -> Ch.cr
      [] e = 116 -> Ch.tab
      [] OTHER -> e

RECURSIVE SkipWs(_, _)
SkipWs(t, i) ==
    IF i <= Len(t) /\ t[i] \in Whitespace THEN SkipWs(t, i + 1) ELSE i

RECURSIVE SkipDigits(_, _)
SkipDigits(t, i) ==
    IF i <= Len(t) /\ IsDigit(t[i]) THEN SkipDigits(t, i + 1) ELSE i

HasAt(t, i, word) ==
    i + Len(word) - 1 <= Len(t) /\ SubSeq(t, i, i + Len(word) - 1) = word

\* i is the position after the opening quote
RECURSIVE ParseString(_, _, _)
ParseString(t, i, acc) ==
    IF i > Len(t) THEN JFail
    ELSE IF t[i] = Ch.quote THEN JOk(i + 1, JStr(acc))
    ELSE IF t[i] = Ch.backslash THEN
        IF i + 1 > Len(t) THEN JFail
        ELSE IF t[i + 1] \in SimpleEscapes
            THEN ParseString(t, i + 2, Append(acc, Unescape(t[i + 1])))
        ELSE IF t[i + 1] = 117 /\ i + 5 <= Len(t)
                /\ \A j \in 2..5 : IsHex(t[i + j])
            THEN ParseString(t, i + 6,
                     Append(acc, HexVal(t[i + 2]) * 4096 + HexVal(t[i + 3]) * 256
                                 + HexVal(t[i + 4]) * 16 + HexVal(t[i + 5])))
        ELSE JFail
    ELSE IF t[i] < Ch.space THEN JFail
    ELSE ParseString(t, i + 1, Append(acc, t[i]))

\* NUMBER_RE: (-?(?:0|[1-9]\d*))(\.\d+)?([eE][-+]?\d+)? matched at i;
\* the position after the match, 0 when there is none
ExpEnd(t, fracEnd, signEnd) ==
    IF signEnd <= Len(t) /\ IsDigit(t[signEnd]) THEN SkipDigits(t, signEnd)
    ELSE fracEnd

ExpStart(t, fracEnd) ==
    IF fracEnd + 1 <= Len(t) /\ t[fracEnd] \in {101, 69} /\ t[fracEnd + 1] \in {43, 45}
        THEN ExpEnd(t, fracEnd, fracEnd + 2)
    ELSE IF fracEnd <= Len(t) /\ t[fracEnd] \in {101, 69}
        THEN ExpEnd(t, fracEnd, fracEnd + 1)
    ELSE fracEnd

FracEnd(t, intEnd) ==
    IF intEnd = 0 THEN 0
    ELSE IF intEnd + 1 <= Len(t) /\ t[intEnd] = Ch.dot /\ IsDigit(t[intEnd + 1])
        THEN ExpStart(t, SkipDigits(t, intEnd + 1))
    ELSE ExpStart(t, intEnd)

IntEnd(t, j) ==
    IF j <= Len(t) /\ t[j] = Ch.zero THEN FracEnd(t, j + 1)
    ELSE IF j <= Len(t) /\ IsDigit(t[j]) THEN FracEnd(t, SkipDigits(t, j))
    ELSE 0

NumberEnd(t, i) ==
    IF i <= Len(t) /\ t[i] = Ch.minus THEN IntEnd(t, i + 1) ELSE IntEnd(t, i)

\* replace the value of an existing key (a dict keeps the first position)
PutMember(kvs, key, val) ==
    IF \E n \in 1..(Len(kvs) \div 2) : kvs[2 * n - 1] = key
    THEN [n \in 1..Len(kvs) |->
             IF n % 2 = 0 /\ kvs[n - 1] = key THEN val ELSE kvs[n]]
    ELSE kvs \o <<key, val>>

RECURSIVE ParseValue(_, _)
RECURSIVE ParseArray(_, _, _)
RECURSIVE ParseObject(_, _, _)

\* after an element: j is the position of "]" or ","
ArrayDelimiter(t, j, acc) ==
    IF j > Len(t) THEN JFail
    ELSE IF t[j] = Ch.rbracket THEN JOk(j + 1, JList(acc))
    ELSE IF t[j] = Ch.comma
        THEN The({ParseArray(t, k, acc) : k \in {SkipWs(t, j + 1)}})
    ELSE JFail

ArrayElement(t, r, acc) ==
    IF ~r.ok THEN JFail
    ELSE The({ArrayDelimiter(t, j, Append(acc, r.val)) : j \in {SkipWs(t, r.pos)}})

\* i is the position of the next element, acc the elements so far
ParseArray(t, i, acc) == The({ArrayElement(t, r, acc) : r \in {ParseValue(t, i)}})

\* after a member: j is the position of "}" or ","
ObjectDelimiter(t, j, acc) ==
    IF j > Len(t) THEN JFail
    ELSE IF t[j] = Ch.rbrace THEN JOk(j + 1, JObj(acc))
    ELSE IF t[j] = Ch.comma
        THEN The({ParseObject(t, k, acc) : k \in {SkipWs(t, j + 1)}})
    ELSE JFail

ObjectValue(t, key, r, acc) ==
    IF ~r.ok THEN JFail
    ELSE The({ObjectDelimiter(t, j, kvs) :
                 <<j, kvs>> \in {<<SkipWs(t, r.pos), PutMember(acc, key, r.val)>>}})

\* c is the position of the ":" after the key
ObjectColon(t, key, c, acc) ==
    IF c > Len(t) \/ t[c] # Ch.colon THEN JFail
    ELSE The({ObjectValue(t, key, r, acc) : r \in {ParseValue(t, SkipWs(t, c + 1))}})

ObjectKey(t, key, acc) ==
    IF ~key.ok THEN JFail
    ELSE The({ObjectColon(t, key.val, c, acc) : c \in {SkipWs(t, key.pos)}})

\* i is the position of the opening quote of the next key
ParseObject(t, i, acc) ==
    IF i > Len(t) \/ t[i] # Ch.quote THEN JFail
    ELSE The({ObjectKey(t, key, acc) : key \in {ParseString(t, i + 1, <<>>)}})

\* j is the position after "{" and the white space that follows
ObjectStart(t, j) ==
    IF j <= Len(t) /\ t[j] = Ch.rbrace THEN JOk(j + 1, JObj(<<>>))
    ELSE ParseObject(t, j, <<>>)

\* j is the position after "[" and the white space that follows
ArrayStart(t, j) ==
    IF j <= Len(t) /\ t[j] = Ch.rbracket THEN JOk(j + 1, JList(<<>>))
    ELSE ParseArray(t, j, <<>>)

\* a number, when NUMBER_RE matches up to numEnd, or one of the constants
NumberOrConstant(t, i, numEnd) ==
    IF numEnd > 0 THEN JOk(numEnd, JNum(SubSeq(t, i, numEnd - 1)))
    ELSE IF HasAt(t, i, NaNWord) THEN JOk(i + Len(NaNWord), JAtom("NaN"))
    ELSE IF HasAt(t, i, InfinityWord)
        THEN JOk(i + Len(InfinityWord), JAtom("Infinity"))
    ELSE IF HasAt(t, i, NegInfinityWord)
        THEN JOk(i + Len(NegInfinityWord), JAtom("-Infinity"))
    ELSE JFail

ParseValue(t, i) ==
    IF i > Len(t) THEN JFail
    ELSE IF t[i] = Ch.quote THEN ParseString(t, i + 1, <<>>)
    ELSE IF t[i] = Ch.lbrace
        THEN The({ObjectStart(t, j) : j \in {SkipWs(t, i + 1)}})
    ELSE IF t[i] = Ch.lbracket
        THEN The({ArrayStart(t, j) : j \in {SkipWs(t, i + 1)}})
    ELSE IF HasAt(t, i, NullWord) THEN JOk(i + Len(NullWord), JAtom("null"))
    ELSE IF HasAt(t, i, TrueWord) THEN JOk(i + Len(TrueWord), JAtom("true"))
    ELSE IF HasAt(t, i, FalseWord) THEN JOk(i + Len(FalseWord), JAtom("false"))
    ELSE The({NumberOrConstant(t, i, numEnd) : numEnd \in {NumberEnd(t, i)}})

\* the value must be followed by white space only
LoadsEnd(t, r) ==
    IF r.ok /\ SkipWs(t, r.pos) = Len(t) + 1
    THEN [ok |-> TRUE, val |-> r.val]
    ELSE [ok |-> FALSE, val |-> JNull]

\* [ok, val]: ok is FALSE where json.loads raises JSONDecodeError
Loads(t) == The({LoadsEnd(t, r) : r \in {ParseValue(t, SkipWs(t, 1))}})

(***************************************************************************)
(* Paths and the file system.                                              *)
(* A path is the sequence of its components; "/" as first component makes  *)
(* it absolute.  The file system maps the absolute location of each node   *)
(* (the names below the root) to [kind, target]: kind is "dir", "file" or  *)
(* "link", target the path a symbolic link holds.                          *)
(***************************************************************************)
Node(kind) == [kind |-> kind, target |-> <<>>]

Link(target) == [kind |-> "link", target |-> target]

\* pathlib.PurePath parsing: "." components are dropped
RECURSIVE PathParts(_)
PathParts(p) ==
    IF p = <<>> THEN <<>>
    ELSE IF Head(p) = "." THEN PathParts(Tail(p))
    ELSE <<Head(p)>> \o PathParts(Tail(p))

IsAbsolute(parts) == parts # <<>> /\ Head(parts) = "/"

\* pathlib's "/" operator: an absolute right operand replaces the left one
JoinPath(a, b) == IF IsAbsolute(b) THEN b ELSE a \o b

\* os.path.realpath(strict=True) as Path.resolve(strict=True) uses it:
\* cur is the resolved location so far (names below the root), rest the
\* components to go, links the symbolic links that may still be followed.
\* [ok, err, at]: err is "notfound" (FileNotFoundError), "loop"
\* (RuntimeError) or "notdir" (NotADirectoryError).
RECURSIVE Walk(_, _, _, _)

\* one component: p is the location of the entry named by Head(rest)
WalkEntry(fs, cur, rest, links, p) ==
    IF p \notin DOMAIN fs THEN [ok |-> FALSE, err |-> "notfound", at |-> <<>>]
    ELSE IF fs[p].kind = "link" THEN
        IF links = 0 THEN [ok |-> FALSE, err |-> "loop", at |-> <<>>]
        ELSE IF IsAbsolute(fs[p].target)
            THEN Walk(fs, <<>>, Tail(fs[p].target) \o Tail(rest), links - 1)
            ELSE Walk(fs, cur, fs[p].target \o Tail(rest), links - 1)
    ELSE Walk(fs, p, Tail(rest), links)

Walk(fs, cur, rest, links) ==
    IF rest = <<>> THEN [ok |-> TRUE, err |-> "", at |-> cur]
    ELSE IF Head(rest) = "." THEN Walk(fs, cur, Tail(rest), links)
    ELSE IF Head(rest) = ".."
        THEN Walk(fs, IF cur = <<>> THEN cur ELSE Take(cur, Len(cur) - 1),
                  Tail(rest), links)
    ELSE IF fs[cur].kind # "dir" THEN [ok |-> FALSE, err |-> "notdir", at |-> <<>>]
    ELSE The({WalkEntry(fs, c, r, links, Append(c, Head(r))) :
                 <<c, r>> \in {<<cur, rest>>}})

\* Path.resolve(strict=True) of an absolute path; the result is absolute
Resolve(fs, parts) ==
    The({[ok |-> r.ok, err |-> r.err, path |-> <<"/">> \o r.at] :
            r \in {Walk(fs, <<>>, Tail(parts), MaxSymlinks)}})

\* PurePath.relative_to succeeds: other's components are a prefix
IsRelativeTo(path, other) == IsPrefix(other, path)

\* the project root, resolved (validate_source_dir, Path.cwd())
SrcDir == <<"/", "proj">>

\* the directory sys.path holds after the entries of backend-path
SiteDir == <<"/", "site">>

\* the nodes every file system of the model has
BaseFS ==
    ( <<>> :> Node("dir")
   @@ <<"proj">> :> Node("dir")
   @@ <<"proj", "setup.py">> :> Node("file")
   @@ <<"proj", "be">> :> Node("dir")
   @@ <<"proj", "src">> :> Node("dir")
   @@ <<"proj", "ln_be">> :> Link(<<"be">>)
   @@ <<"proj", "ln_out">> :> Link(<<"/", "out">>)
   @@ <<"proj", "loop">> :> Link(<<"loop">>)
   @@ <<"out">> :> Node("dir")
   @@ <<"site">> :> Node("dir")
   @@ <<"site", "setuptools">> :> Node("dir")
   @@ <<"site", "setuptools", "build_meta.py">> :> Node("file") )

\* where the module file be.py of the backend "be" lies
FileSystems ==
    { BaseFS,
      BaseFS @@ (<<"proj", "be", "be.py">> :> Node("file")),
      BaseFS @@ (<<"site", "be.py">> :> Node("file")),
      BaseFS @@ (<<"proj", "be", "be.py">> :> Node("file"))
             @@ (<<"site", "be.py">> :> Node("file")),
      BaseFS @@ (<<"out", "be.py">> :> Node("file"))
             @@ (<<"proj", "src", "be.py">> :> Link(<<"/", "out", "be.py">>)) }

(***************************************************************************)
(* pyproject.toml as tomllib loads it.  A TOML value is [t, v, items]:     *)
(* t = "str" with v the string (a path: its components; a backend          *)
(* reference: module, ":", object), t = "int", or t = "list" with items.   *)
(* A project file is [state, has_build_system, keys, requires, backend,    *)
(* backend_path]: state is "absent", "invalid" (not TOML) or "valid", keys *)
(* the keys the build-system table has.                                    *)
(***************************************************************************)
TStr(v) == [t |-> "str", v |-> v, items |-> <<>>]

TInt == [t |-> "int", v |-> <<>>, items |-> <<>>]

TList(items) == [t |-> "list", v |-> <<>>, items |-> items]

\* default_build_system
DefaultBuildSystem ==
    [backend |-> <<"setuptools.build_meta", ":", "__legacy__">>,
     requires |-> <<<<"setuptools">>, <<"wheel">>>>,
     has_backend_path |-> FALSE,
     backend_path |-> <<>>]

NoBuildSystem ==
    [backend |-> <<>>, requires |-> <<>>, has_backend_path |-> FALSE,
     backend_path |-> <<>>]

NoError == [type |-> "", msg |-> "", data |-> <<>>]

Error(type, msg) == [type |-> type, msg |-> msg, data |-> <<>>]

Parsed(bs) == [ok |-> TRUE, err |-> NoError, bs |-> bs]

ParseError(type, msg) == [ok |-> FALSE, err |-> Error(type, msg), bs |-> NoBuildSystem]

Strings(items) == [i \in DOMAIN items |-> items[i].v]

\* a loop that stops after the first entry of backend-path
MutCheckFirstOnly(fs, srcdir, items, i) ==
    IF i > Len(items) \/ i > 1 THEN NoError
    ELSE IF items[i].t # "str"
        THEN Error("TypeError", "backend-path should be a list of strings")
    ELSE IF IsAbsolute(PathParts(items[i].v))
        THEN Error("ValueError", "Invalid absolute backend-path")
    ELSE IF ~Resolve(fs, JoinPath(srcdir, PathParts(items[i].v))).ok
        THEN Error("ValueError", "Unable to resolve backend-path")
    ELSE IF ~IsRelativeTo(Resolve(fs, JoinPath(srcdir, PathParts(items[i].v))).path,
                          srcdir)
        THEN Error("ValueError", "Invalid backend-path")
    ELSE NoError

\* a loop that resolves the entries but does not compare them with srcdir
RECURSIVE MutCheckNoRelativeTo(_, _, _, _)
MutCheckNoRelativeTo(fs, srcdir, items, i) ==
    IF i > Len(items) THEN NoError
    ELSE IF items[i].t # "str"
        THEN Error("TypeError", "backend-path should be a list of strings")
    ELSE IF IsAbsolute(PathParts(items[i].v))
        THEN Error("ValueError", "Invalid absolute backend-path")
    ELSE IF ~Resolve(fs, JoinPath(srcdir, PathParts(items[i].v))).ok
        THEN Error("ValueError", "Unable to resolve backend-path")
    ELSE MutCheckNoRelativeTo(fs, srcdir, items, i + 1)

\* the loop over backend-path: the entries from position i on
RECURSIVE CheckBackendPath(_, _, _, _)
CheckBackendPath(fs, srcdir, items, i) ==
    IF i > Len(items) THEN NoError
    ELSE IF items[i].t # "str"
        THEN Error("TypeError", "backend-path should be a list of strings")
    ELSE IF IsAbsolute(PathParts(items[i].v))
        THEN Error("ValueError", "Invalid absolute backend-path")
    ELSE The({ IF ~bep.ok /\ bep.err \in {"notfound", "loop"}
                   THEN Error("ValueError", "Unable to resolve backend-path")
               ELSE IF ~bep.ok
                   THEN Error("NotADirectoryError", "")
               ELSE IF ~IsRelativeTo(bep.path, srcdir)
                   THEN Error("ValueError", "Invalid backend-path")
               ELSE CheckBackendPath(fs, srcdir, items, i + 1) :
               bep \in {Resolve(fs, JoinPath(srcdir, PathParts(items[i].v)))} })

\* a parser that takes the build-system table to be mandatory
MutParseBuildSystemSpec(fs, srcdir, pp) ==
    IF pp.state = "absent" THEN Parsed(DefaultBuildSystem)
    ELSE IF pp.state = "invalid"
        THEN ParseError("ValueError", "Invalid pyproject.toml")
    ELSE IF ~pp.has_build_system \/ "requires" \notin pp.keys
        THEN ParseError("KeyError", "Missing mandatory build-system.requires")
    ELSE Parsed([DefaultBuildSystem EXCEPT !.requires = Strings(pp.requires.items)])

parse_build_system_spec(fs, srcdir, pp) ==
    IF pp.state = "absent" THEN Parsed(DefaultBuildSystem)
    ELSE IF pp.state = "invalid"
        THEN ParseError("ValueError", "Invalid pyproject.toml")
    ELSE IF ~pp.has_build_system THEN Parsed(DefaultBuildSystem)
    ELSE IF "requires" \notin pp.keys
        THEN ParseError("KeyError", "Missing mandatory build-system.requires")
    ELSE IF pp.requires.t # "list"
            \/ \E i \in DOMAIN pp.requires.items : pp.requires.items[i].t # "str"
        THEN ParseError("TypeError", "requires should be a list of strings")
    ELSE IF "build-backend" \notin pp.keys
        THEN Parsed([DefaultBuildSystem EXCEPT !.requires = Strings(pp.requires.items)])
    ELSE IF pp.backend.t # "str"
        THEN ParseError("TypeError", "build-backend should be a string")
    ELSE
    LET bs == [backend |-> pp.backend.v,
               requires |-> Strings(pp.requires.items),
               has_backend_path |-> FALSE,
               backend_path |-> <<>>]
    IN  IF "backend-path" \notin pp.keys THEN Parsed(bs)
        ELSE IF pp.backend_path.t # "list"
            THEN ParseError("TypeError", "backend-path should be a list of strings")
        ELSE
        LET e == CheckBackendPath(fs, srcdir, pp.backend_path.items, 1)
        IN  IF e # NoError THEN [ok |-> FALSE, err |-> e, bs |-> NoBuildSystem]
            ELSE Parsed([bs EXCEPT !.has_backend_path = TRUE,
                                   !.backend_path = Strings(pp.backend_path.items)])

(***************************************************************************)
(* The child helper (backend_caller.py): the pure parts.                   *)
(***************************************************************************)
\* hook name: fallback ("none": a mandatory hook)
SUPPORTED_HOOKS ==
    [build_wheel |-> "none", build_sdist |-> "none",
     get_requires_for_build_wheel |-> "empty_list",
     get_requires_for_build_sdist |-> "empty_list"]

\* str.partition(":") of a backend reference: [module, object_path]
RECURSIVE Partition(_, _)
Partition(ref, before) ==
    IF ref = <<>> THEN [module |-> before, object_path |-> <<>>]
    ELSE IF Head(ref) = ":" THEN [module |-> before, object_path |-> Tail(ref)]
    ELSE Partition(Tail(ref), Append(before, Head(ref)))

\* the file of a module below an entry of sys.path
ModuleFile(module) ==
    IF module = <<"setuptools.build_meta">> THEN <<"setuptools", "build_meta.py">>
    ELSE IF module = <<"be">> THEN <<"be.py">>
    ELSE <<"nomodule.py">>

\* the attributes (other than hooks) the modules of the model define
ModuleAttrs(module) ==
    IF module = <<"setuptools.build_meta">> THEN {"__legacy__"}
    ELSE IF module = <<"be">> THEN {"obj"}
    ELSE {}

\* import_module: the first entry of sys.path that holds the module's file;
\* the entries are relative to the working directory (the project root).
\* [ok, file]: file is the module's __file__, not resolved
RECURSIVE FindModule(_, _, _, _)
FindModule(fs, cwd, syspath, module) ==
    IF syspath = <<>> THEN [ok |-> FALSE, file |-> <<>>]
    ELSE The({ IF Resolve(fs, file).ok /\ fs[Tail(Resolve(fs, file).path)].kind = "file"
               THEN [ok |-> TRUE, file |-> file]
               ELSE FindModule(fs, cwd, rest, module) :
               <<file, rest>> \in {<<JoinPath(cwd, PathParts(Head(syspath)))
                                          \o ModuleFile(module),
                                      Tail(syspath)>>} })

\* a helper that does not compare the file with the entries of backend_path
MutCheckLoadedFrom(fs, cwd, actual_bep, backend_path) == ""

\* the for/else over backend_path: "" when actual_bep is below an entry,
\* else the error (resolve(strict=True) of an entry may raise first)
RECURSIVE CheckLoadedFrom(_, _, _, _)
CheckLoadedFrom(fs, cwd, actual_bep, backend_path) ==
    IF backend_path = <<>> THEN "ValueError"
    ELSE The({ IF ~expected_bep.ok THEN "FileNotFoundError"
               ELSE IF IsRelativeTo(actual_bep, expected_bep.path) THEN ""
               ELSE CheckLoadedFrom(fs, cwd, actual_bep, Tail(backend_path)) :
               expected_bep \in
                   {Resolve(fs, JoinPath(cwd, PathParts(Head(backend_path))))} })

\* backend_object(backend, backend_path): [ok, err, file]; has_path is
\* "backend_path is not None", file the resolved file of the module
\* lines 38-64: the module is imported by now; actual_bep is its resolved
\* file, check the outcome of the comparison with backend_path
BackendLoaded(ref, has_path, actual_bep, check) ==
    IF has_path /\ check # ""
        THEN [ok |-> FALSE, err |-> check, file |-> actual_bep]
    ELSE IF \E i \in DOMAIN ref.object_path :
                ref.object_path[i] \notin ModuleAttrs(ref.module)
        THEN [ok |-> FALSE, err |-> "AttributeError", file |-> actual_bep]
    ELSE [ok |-> TRUE, err |-> "", file |-> actual_bep]

\* lines 30-36: sys.path gets backend_path in front, the module is imported
BackendImported(fs, cwd, ref, has_path, backend_path, found) ==
    IF ~found.ok
        THEN [ok |-> FALSE, err |-> "ModuleNotFoundError", file |-> <<>>]
    ELSE The({ BackendLoaded(ref, has_path, actual_bep, check) :
               <<actual_bep, check>> \in
                   { <<bep.path, CheckLoadedFrom(fs, cwd, bep.path, backend_path)>> :
                       bep \in {Resolve(fs, found.file)} } })

backend_object(fs, cwd, backend, has_path, backend_path) ==
    The({ BackendImported(fs, cwd, ref, has_path, backend_path, found) :
          <<ref, found>> \in
              { <<r, FindModule(fs, cwd,
                               (IF has_path THEN backend_path ELSE <<>>) \o <<SiteDir>>,
                               r.module)>> :
                  r \in {Partition(backend, <<>>)} } })

\* make_args: what the child's argument parser gets of the build system
\* (--backend-path is repeated per entry; none given leaves it None)
make_args(bs, hook, hook_args) ==
    [backend |-> bs.backend,
     has_path |-> bs.has_backend_path /\ bs.backend_path # <<>>,
     backend_path |-> bs.backend_path,
     hook |-> hook,
     hook_args |-> Dumps(hook_args)]

NoArgs ==
    [backend |-> <<>>, has_path |-> FALSE, backend_path |-> <<>>, hook |-> "",
     hook_args |-> <<>>]

\* "/out", the output directory
OutDirText == <<47, 111, 117, 116>>

\* "config_settings"
ConfigSettingsKey ==
    <<99, 111, 110, 102, 105, 103, 95, 115, 101, 116, 116, 105, 110, 103, 115>>

\* build, line 263: hook_args=[(str(outdir),), {"config_settings": config}]
HookArgs ==
    JList(<<JList(<<JStr(OutDirText)>>), JObj(<<JStr(ConfigSettingsKey), JNull>>)>>)

(***************************************************************************)
(* call_hook of the front-end, its reader thread, the pipe and the child.  *)
(***************************************************************************)
VARIABLES
    fs,            \* the file system
    pyproject,     \* the project file
    hook,          \* the hook call_hook is asked for
    backendHooks,  \* the hooks the backend object implements
    hookBehaviour, \* what the backend's hook does when called
    pc,            \* where call_hook is
    build_system,  \* parse_build_system_spec's result
    rfd, wfd,      \* the parent's descriptors: "unset", "open", "closed"
    tstate,        \* the reader thread: "unstarted", "running", "finished"
    texc,          \* RaisingThread._exc: TRUE when run() caught an exception
    started,       \* how many threads call_hook has started
    joined,        \* whether t.join() has returned or raised
    read,          \* the bytes read_from_pipe has accumulated
    result,        \* what call_hook returns
    error,         \* what call_hook raises
    events,        \* the steps taken so far by the parent and the child
    pipe,          \* the bytes in the pipe
    cpc,           \* where the child is
    cargs,         \* the child's arguments
    cstatus,       \* the child's exit status
    cfile,         \* the resolved file the backend module was loaded from
    cresult,       \* the bytes the child is to write to the result descriptor
    csent,         \* write_result's sent
    cexc,          \* the exception that ended the child
    cstdout,       \* the bytes the child has written to its standard output
    cstderr,       \* the bytes the child has written to its standard error
    ccall,         \* the arguments the hook was called with: [args, kwargs]
    verbose,       \* call_hook's argument
    command,       \* what is called: "call_hook", "build_wheel", "build_sdist"
    bpc,           \* where build_wheel or build_sdist is
    berror,        \* what build_wheel or build_sdist raises
    filename,      \* what build has returned to build_wheel or build_sdist
    tracker,       \* the tracker file of the output directory: [exists, text]
    built          \* the calls made so far: [command, ok, filename]

\* install_wheel (the installer's state; idle while call_hook is looked at)
VARIABLES
    wheel,           \* the wheel file: its members and the rows of RECORD
    strip_dist_info, \* install_wheel's argument
    tamper,          \* how the wheel differs from the one that was built
    ipc,             \* where install_wheel is
    ierror,          \* the message of the ValueError install_wheel raises
    installed,       \* the paths extracted below the installation root
    wheel_name,      \* the name of the wheel file (characters)
    zip_file,        \* whether the wheel file is a zip archive
    installer,       \* install_wheel's argument: [given, text]
    executable,      \* sys.executable (characters)
    opened,          \* ZipFile(wheel_path) has been called
    dist_info,       \* the name of the dist-info directory, from the file name
    warned,          \* logger.warning has been called
    launchers,       \* the scripts written below the scripts directory
    installer_file,  \* the INSTALLER files written: none or one text
    data_files       \* the files copied out of the .data directory

\* the self-hosted backend (idle while the front-end or the installer is
\* looked at)
VARIABLES
    project,   \* pyproject.toml and the tree: [name, license_files, readme,
               \* license, dynamic, root, package]
    epoch,     \* SOURCE_DATE_EPOCH of the environment: [set, value]
    kpc,       \* where build_wheel or build_sdist of the backend is
    archive,   \* the archive being written: [kind, filename, mtime, members]
    records,   \* WheelBuilder.records
    archives,  \* the archives built so far
    stamp,     \* the wall clock and the files' modification time: [now, mtime]
    raised     \* what the last build_wheel or build_sdist raised, "" if nothing

backendVars == <<project, epoch, kpc, archive, records, archives, stamp, raised>>

\* build_metadata of the front-end
VARIABLES
    mbackend,  \* the backend: [prepare, content, wheel_name]
    mpc,       \* where build_metadata is
    mcalls,    \* the hooks called so far, in order
    mhook,     \* what the last hook returned
    scratch,   \* the files of the scratch directory
    outdir,    \* the files of the output directory
    mresult    \* what build_metadata returned

metaVars == <<mbackend, mpc, mcalls, mhook, scratch, outdir, mresult>>

\* DepsSourcesConfig.sync
VARIABLES
    depsfile,   \* the config file: [canonical, sources]
    collected,  \* what the collector of each source gives: [ok, deps]
    dcalls,     \* the calls of sync so far: [srcnames, verify, before, error]
    shown       \* the diff the last call wrote to stdout

depsVars == <<depsfile, collected, dcalls, shown>>

\* Pep735Collector: the resolution of a dependency group
VARIABLES
    groups,   \* the dependency-groups table: from a name to its list
    request,  \* the group the collector is made for
    gpc,      \* where the resolution is
    gstack,   \* the generators that are not exhausted: [group, pos]
    gout,     \* the requirements yielded so far
    gerror    \* what the resolution raised: [kind, chain]

groupVars == <<groups, request, gpc, gstack, gout, gerror>>

\* the commands that are looked at on their own
toolVars == <<metaVars, depsVars, groupVars>>

\* the wheel and the call
wheelInputs ==
    <<wheel, strip_dist_info, tamper, wheel_name, zip_file, installer, executable>>

\* what install_wheel is given
installInputs == <<wheelInputs, backendVars, toolVars>>

\* what install_wheel has written below the destination
destVars == <<installed, launchers, installer_file, data_files>>

installVars == <<installInputs, ipc, ierror, opened, dist_info, warned, destVars>>

hookVars ==
    <<fs, pyproject, hook, backendHooks, hookBehaviour, pc, build_system, rfd,
      wfd, tstate, texc, started, joined, read, result, error, events, pipe,
      cpc, cargs, cstatus, cfile, cresult, csent, cexc, cstdout, cstderr,
      ccall, verbose, command, bpc, berror, filename, tracker, built>>

\* the state of build_wheel and build_sdist around call_hook
buildVars == <<command, bpc, berror, filename, tracker, built>>

envVars ==
    <<fs, pyproject, hook, backendHooks, hookBehaviour, verbose, buildVars,
      installVars>>

parentVars == <<pc, build_system, rfd, wfd, started, joined, result, error>>

threadVars == <<tstate, texc, read>>

\* what the child has printed and the exception it has died of
coutVars == <<cexc, cstdout, cstderr, ccall>>

childVars == <<cpc, cargs, cstatus, cfile, cresult, csent, coutVars>>

\* buffer_size of read_from_pipe
buffer_size == 2048

NoResult == JAtom("none")

\* a hook's behaviour: it returns val, raises, calls sys.exit(0), or writes
\* bytes of its own to the result descriptor and calls sys.exit(0)
Returns(val) == [kind |-> "return", val |-> val, bytes |-> <<>>]

Raises == [kind |-> "raise", val |-> JNull, bytes |-> <<>>]

Exits == [kind |-> "exit0", val |-> JNull, bytes |-> <<>>]

Writes(bytes) == [kind |-> "write", val |-> JNull, bytes |-> bytes]

\* the child holds the inherited write end while it runs
ChildRunning == cpc \notin {"none", "exited"}

WriteEndOpen == wfd = "open" \/ ChildRunning

HookResult(val) == JObj(<<JStr(ResultKey), val>>)

----
\* line 296: build_system = parse_build_system_spec(srcdir)
ParseSpec ==
    /\ pc = "parse"
    /\ \E r \in {parse_build_system_spec(fs, SrcDir, pyproject)} :
           IF r.ok
           THEN /\ build_system' = r.bs
                /\ pc' = "pipe"
                /\ error' = error
           ELSE /\ error' = r.err
                /\ pc' = "raised"
                /\ build_system' = build_system
    /\ UNCHANGED <<envVars, rfd, wfd, started, joined, result, events,
                   threadVars, pipe, childVars>>

\* line 299: rfd, wfd = os.pipe()
CreatePipe ==
    /\ pc = "pipe"
    /\ rfd' = "open"
    /\ wfd' = "open"
    /\ pc' = "start"
    /\ events' = Append(events, "pipe")
    /\ UNCHANGED <<envVars, build_system, started, joined, result, error,
                   threadVars, pipe, childVars>>

\* lines 312-313: t = RaisingThread(target=read_from_pipe); t.start()
StartThread ==
    /\ pc = "start"
    /\ tstate' = "running"
    /\ started' = started + 1
    /\ pc' = "run"
    /\ events' = Append(events, "thread")
    /\ UNCHANGED <<envVars, build_system, rfd, wfd, joined, result, error,
                   texc, read, pipe, childVars>>

\* lines 317-332: make_args and subprocess.run spawning the child
Spawn ==
    /\ pc = "run"
    /\ cargs' = make_args(build_system, hook, HookArgs)
    /\ cpc' = "backend_object"
    /\ pc' = "wait"
    /\ events' = Append(events, "spawn")
    /\ UNCHANGED <<envVars, build_system, rfd, wfd, started, joined, result,
                   error, threadVars, pipe, cstatus, cfile, cresult, csent,
                   coutVars>>

\* line 314
capture_output == ~verbose

\* bytes.decode(encoding="utf-8", errors="replace") of output made of ASCII
\* characters and of bytes that start no UTF-8 sequence: each such byte
\* becomes U+FFFD
DecodeReplace(bytes) ==
    [i \in DOMAIN bytes |-> IF bytes[i] < 128 THEN bytes[i] ELSE 65533]

\* "\n\nCaptured stdout:\n\n"
CapturedStdout ==
    <<10, 10, 67, 97, 112, 116, 117, 114, 101, 100, 32, 115, 116, 100, 111, 117,
      116, 58, 10, 10>>

\* "\n\nCaptured stderr:\n\n"
CapturedStderr ==
    <<10, 10, 67, 97, 112, 116, 117, 114, 101, 100, 32, 115, 116, 100, 101, 114,
      114, 58, 10, 10>>

\* lines 336-342: what follows "<hook> failed" in the message
CapturedText(stdout, stderr) ==
    CapturedStdout \o DecodeReplace(stdout) \o CapturedStderr \o DecodeReplace(stderr)

\* a call_hook that puts the captured output in the message whatever
\* verbose is
MutWaitChild ==
    /\ pc = "wait"
    /\ cpc = "exited"
    /\ IF cstatus = 0
       THEN /\ pc' = "close_wfd"
            /\ error' = error
       ELSE /\ pc' = "finally"
            /\ error' = [type |-> "RuntimeError", msg |-> "hook failed",
                         data |-> CapturedText(cstdout, cstderr)]
    /\ UNCHANGED <<envVars, build_system, rfd, wfd, started, joined, result,
                   events, threadVars, pipe, childVars>>

\* lines 325-343: subprocess.run returns when the child has exited;
\* check=True raises CalledProcessError, turned into RuntimeError
WaitChild ==
    /\ pc = "wait"
    /\ cpc = "exited"
    /\ IF cstatus = 0
       THEN /\ pc' = "close_wfd"
            /\ error' = error
       ELSE /\ pc' = "finally"
            /\ error' = [type |-> "RuntimeError", msg |-> "hook failed",
                         data |-> IF capture_output
                                  THEN CapturedText(cstdout, cstderr) ELSE <<>>]
    /\ UNCHANGED <<envVars, build_system, rfd, wfd, started, joined, result,
                   events, threadVars, pipe, childVars>>

\* the parent keeps its write end open and goes on to join
MutCloseWfd ==
    /\ pc = "close_wfd"
    /\ wfd' = wfd
    /\ pc' = "join"
    /\ events' = events
    /\ UNCHANGED <<envVars, build_system, rfd, started, joined, result, error,
                   threadVars, pipe, childVars>>

\* line 345: os.close(wfd)
CloseWfd ==
    /\ pc = "close_wfd"
    /\ wfd' = "closed"
    /\ pc' = "join"
    /\ events' = Append(events, "close_wfd")
    /\ UNCHANGED <<envVars, build_system, rfd, started, joined, result, error,
                   threadVars, pipe, childVars>>

\* lines 346-349: t.join() waits for the thread and re-raises its exception
JoinThread ==
    /\ pc = "join"
    /\ tstate = "finished"
    /\ joined' = TRUE
    /\ events' = Append(events, "join")
    /\ IF texc
       THEN /\ pc' = "finally"
            /\ error' = Error("RuntimeError", "reader thread")
       ELSE /\ pc' = "close_rfd"
            /\ error' = error
    /\ UNCHANGED <<envVars, build_system, rfd, wfd, started, result,
                   threadVars, pipe, childVars>>

\* line 350: os.close(rfd)
CloseRfd ==
    /\ pc = "close_rfd"
    /\ rfd' = "closed"
    /\ pc' = "loads"
    /\ UNCHANGED <<envVars, build_system, wfd, started, joined, result, error,
                   events, threadVars, pipe, childVars>>

\* lines 351-357: result = json.loads(read.decode("utf-8")); [result, error]
DecodedResult(text, parsed) ==
    IF parsed.ok THEN [result |-> parsed.val, error |-> NoError]
    ELSE [result |-> NoResult,
          error |-> [type |-> "RuntimeError",
                     msg |-> "Received invalid JSON data from backend helper",
                     data |-> text]]

LoadsDecoded(text) ==
    IF text.ok
    THEN The({DecodedResult(t, parsed) : <<t, parsed>> \in {<<text.text, Loads(text.text)>>}})
    ELSE [result |-> NoResult, error |-> Error("UnicodeDecodeError", "")]

LoadsRead(bytes) == The({LoadsDecoded(text) : text \in {Utf8Decode(bytes)}})

LoadResult ==
    /\ pc = "loads"
    /\ pc' = "finally"
    /\ events' = Append(events, "loads")
    /\ \E r \in {LoadsRead(read)} :
          /\ result' = r.result
          /\ error' = r.error
    /\ UNCHANGED <<envVars, build_system, rfd, wfd, started, joined,
                   threadVars, pipe, childVars>>

\* lines 358-364: with suppress(OSError): os.close(wfd); os.close(rfd)
\* closing a closed descriptor raises OSError, which ends the with block
Finally ==
    /\ pc = "finally"
    /\ IF wfd = "closed"
       THEN UNCHANGED <<wfd, rfd>>
       ELSE /\ wfd' = "closed"
            /\ rfd' = "closed"
    /\ pc' = IF error = NoError THEN "returned" ELSE "raised"
    /\ UNCHANGED <<envVars, build_system, started, joined, result, error,
                   events, threadVars, pipe, childVars>>

ParentNext ==
    \/ ParseSpec
    \/ CreatePipe
    \/ StartThread
    \/ Spawn
    \/ WaitChild
    \/ CloseWfd
    \/ JoinThread
    \/ CloseRfd
    \/ LoadResult
    \/ Finally

----
\* a reader that is not concurrent with the child: it reads only once the
\* child has exited
MutReaderRead ==
    /\ tstate = "running"
    /\ rfd = "open"
    /\ pipe # <<>>
    /\ cpc = "exited"
    /\ \E n \in 1..Min(buffer_size, Len(pipe)) :
          /\ read' = read \o Take(pipe, n)
          /\ pipe' = Drop(pipe, n)
    /\ UNCHANGED <<envVars, parentVars, events, tstate, texc, childVars>>

\* read_from_pipe, lines 306-310: os.read returns some of the bytes in the
\* pipe, at most buffer_size of them; read += read_chunk
ReaderRead ==
    /\ tstate = "running"
    /\ rfd = "open"
    /\ pipe # <<>>
    /\ \E n \in 1..Min(buffer_size, Len(pipe)) :
          /\ read' = read \o Take(pipe, n)
          /\ pipe' = Drop(pipe, n)
    /\ UNCHANGED <<envVars, parentVars, events, tstate, texc, childVars>>

\* lines 307-309: os.read returns b"" once the pipe is empty and no write
\* end is open; the loop breaks and run() returns
ReaderEof ==
    /\ tstate = "running"
    /\ pipe = <<>>
    /\ ~WriteEndOpen
    /\ tstate' = "finished"
    /\ UNCHANGED <<envVars, parentVars, events, texc, read, pipe, childVars>>

\* os.read raises OSError for an error of the system; RaisingThread.run
\* keeps the exception
ReaderRaises ==
    /\ tstate = "running"
    /\ rfd = "open"
    /\ tstate' = "finished"
    /\ texc' = TRUE
    /\ UNCHANGED <<envVars, parentVars, events, read, pipe, childVars>>

\* os.read on the descriptor the parent's finally block has closed already
\* raises OSError (EBADF)
ReaderBadFd ==
    /\ tstate = "running"
    /\ rfd = "closed"
    /\ tstate' = "finished"
    /\ texc' = TRUE
    /\ UNCHANGED <<envVars, parentVars, events, read, pipe, childVars>>

ReaderNext ==
    \/ ReaderRead
    \/ ReaderEof
    \/ ReaderRaises
    \/ ReaderBadFd

----
\* "INFO", newline: what main logs to the standard output, lines 175-182
LogBytes == <<73, 78, 70, 79, 10>>

\* what the hooks of the model print: "h", a byte that is not UTF-8, newline
HookOutput == <<104, 255, 10>>

\* the traceback of an uncaught exception on the standard error: "T:" and
\* the first letter of the type
Traceback(e) ==
    <<84, 58>> \o ( CASE e.type = "ValueError" -> <<86>>
                     [] e.type = "ModuleNotFoundError" -> <<77>>
                     [] e.type = "FileNotFoundError" -> <<70>>
                     [] e.type = "AttributeError" -> <<65>>
                     [] OTHER -> <<69>> ) \o <<10>>

\* the exception of a hook that raises
HookError == Error("Exception", "raised by the hook")

\* line 149
MissingHookError == Error("ValueError", "Missing mandatory hook in build backend")

\* the exit of the child with the uncaught exception e
ChildFails(e) ==
    /\ cpc' = "exited"
    /\ cstatus' = 1
    /\ events' = Append(events, "exit1")
    /\ cexc' = e
    /\ cstderr' = cstderr \o Traceback(e)

\* main, lines 156-183, and backend_object, called at line 143
ChildBackendObject ==
    /\ cpc = "backend_object"
    /\ \E r \in {backend_object(fs, SrcDir, cargs.backend, cargs.has_path,
                                 cargs.backend_path)} :
           /\ cfile' = r.file
           /\ IF r.ok
              THEN /\ cpc' = "getattr"
                   /\ cstatus' = cstatus
                   /\ events' = Append(events, "imported")
                   /\ UNCHANGED <<cexc, cstderr>>
              ELSE ChildFails(Error(r.err, "backend_object"))
    /\ cstdout' = cstdout \o LogBytes
    /\ ccall' = ccall
    /\ UNCHANGED <<envVars, parentVars, threadVars, pipe, cargs, cresult, csent>>

\* a helper that gives the fallback for every hook the backend lacks
MutChildGetattr ==
    /\ cpc = "getattr"
    /\ IF cargs.hook \in backendHooks
       THEN /\ cpc' = "hook"
            /\ events' = Append(events, "getattr")
            /\ cresult' = cresult
       ELSE /\ cpc' = "write"
            /\ events' = Append(events, "fallback")
            /\ cresult' = Utf8Encode(Dumps(HookResult(JList(<<>>))))
    /\ UNCHANGED <<envVars, parentVars, threadVars, pipe, cargs, cfile, csent,
                   cstatus, coutVars>>

\* call_hook of the helper, lines 144-150: the hook is looked up; a missing
\* hook gives its fallback, or ValueError when it is mandatory
ChildGetattr ==
    /\ cpc = "getattr"
    /\ IF cargs.hook \in backendHooks
       THEN /\ cpc' = "hook"
            /\ events' = Append(events, "getattr")
            /\ UNCHANGED <<cstatus, cresult, cexc, cstderr>>
       ELSE IF SUPPORTED_HOOKS[cargs.hook] = "none"
       THEN /\ ChildFails(MissingHookError)
            /\ cresult' = cresult
       ELSE /\ cpc' = "write"
            /\ events' = Append(events, "fallback")
            /\ cresult' = Utf8Encode(Dumps(HookResult(JList(<<>>))))
            /\ UNCHANGED <<cstatus, cexc, cstderr>>
    /\ UNCHANGED <<envVars, parentVars, threadVars, pipe, cargs, cfile, csent,
                   cstdout, ccall>>

\* line 152: the hook is called; main, lines 184-193, dumps what it returns
ChildCallHook ==
    /\ cpc = "hook"
    /\ CASE hookBehaviour.kind = "return" ->
               /\ cpc' = "write"
               /\ cresult' = Utf8Encode(Dumps(HookResult(hookBehaviour.val)))
               /\ events' = Append(events, "called")
               /\ UNCHANGED <<cstatus, cexc, cstderr>>
         [] hookBehaviour.kind = "write" ->
               /\ cpc' = "write"
               /\ cresult' = hookBehaviour.bytes
               /\ events' = Append(events, "called")
               /\ UNCHANGED <<cstatus, cexc, cstderr>>
         [] hookBehaviour.kind = "exit0" ->
               /\ cpc' = "write"
               /\ cresult' = <<>>
               /\ events' = Append(events, "called")
               /\ UNCHANGED <<cstatus, cexc, cstderr>>
         [] hookBehaviour.kind = "raise" ->
               /\ cpc' = "exited"
               /\ cstatus' = 1
               /\ events' = events \o <<"called", "exit1">>
               /\ cresult' = cresult
               /\ cexc' = HookError
               /\ cstderr' = cstderr \o Traceback(HookError)
    /\ cstdout' = cstdout \o HookOutput
    /\ ccall' = Loads(cargs.hook_args).val
    /\ UNCHANGED <<envVars, parentVars, threadVars, pipe, cargs, cfile, csent>>

\* write_result writing result from its start again instead of result[sent:]
MutChildWrite ==
    /\ cpc = "write"
    /\ csent # Len(cresult)
    /\ Len(pipe) < PipeCapacity
    /\ \E n \in 1..Min(Len(cresult) - csent, PipeCapacity - Len(pipe)) :
          /\ pipe' = pipe \o SubSeq(cresult, 1, n)
          /\ csent' = csent + n
    /\ UNCHANGED <<envVars, parentVars, threadVars, events, cpc, cargs,
                   cstatus, cfile, cresult, coutVars>>

\* write_result, lines 69-71: os.write blocks while the pipe is full and
\* returns how many bytes it has written; sent += that
ChildWrite ==
    /\ cpc = "write"
    /\ csent # Len(cresult)
    /\ Len(pipe) < PipeCapacity
    /\ \E n \in 1..Min(Len(cresult) - csent, PipeCapacity - Len(pipe)) :
          /\ pipe' = pipe \o SubSeq(cresult, csent + 1, csent + n)
          /\ csent' = csent + n
    /\ UNCHANGED <<envVars, parentVars, threadVars, events, cpc, cargs,
                   cstatus, cfile, cresult, coutVars>>

\* the child exits with status 0 once all of the result is written
ChildExit ==
    /\ cpc = "write"
    /\ csent = Len(cresult)
    /\ cpc' = "exited"
    /\ cstatus' = 0
    /\ events' = Append(events, "exit0")
    /\ UNCHANGED <<envVars, parentVars, threadVars, pipe, cargs, cfile,
                   cresult, csent, coutVars>>

ChildNext ==
    \/ ChildBackendObject
    \/ ChildGetattr
    \/ ChildCallHook
    \/ ChildWrite
    \/ ChildExit

----
(***************************************************************************)
(* build_wheel and build_sdist, which call call_hook.                      *)
(***************************************************************************)
\* the most calls of build_wheel and build_sdist in a run
MaxBuilds == 3

SUPPORTED_BUILD_HOOKS == {"build_wheel", "build_sdist"}

\* validate_source_dir: NoError or the ValueError; pyproject.toml is the
\* project file, setup.py a file of the file system
validate_source_dir(files, srcdir, pp) ==
    IF ~Resolve(files, srcdir).ok
        THEN Error("ValueError", "Unable to resolve path for source directory")
    ELSE IF files[Tail(Resolve(files, srcdir).path)].kind # "dir"
        THEN Error("ValueError", "Source path should be a directory")
    ELSE IF /\ pp.state = "absent"
            /\ ~( /\ Resolve(files, srcdir \o <<"setup.py">>).ok
                  /\ files[Tail(Resolve(files, srcdir \o <<"setup.py">>).path)].kind
                        = "file" )
        THEN Error("ValueError", "Required either pyproject.toml or setup.py")
    ELSE NoError

\* what a call leaves in the list of the calls made
Built(cmd, ok, name) == [command |-> cmd, ok |-> ok, filename |-> name]

\* a new run of call_hook
StartCallHook ==
    /\ pc' = "parse"
    /\ build_system' = NoBuildSystem
    /\ rfd' = "unset"
    /\ wfd' = "unset"
    /\ tstate' = "unstarted"
    /\ texc' = FALSE
    /\ started' = 0
    /\ joined' = FALSE
    /\ read' = <<>>
    /\ result' = NoResult
    /\ error' = NoError
    /\ events' = <<>>
    /\ pipe' = <<>>
    /\ cpc' = "none"
    /\ cargs' = NoArgs
    /\ cstatus' = 0
    /\ cfile' = <<>>
    /\ cresult' = <<>>
    /\ csent' = 0
    /\ cexc' = NoError
    /\ cstdout' = <<>>
    /\ cstderr' = <<>>
    /\ ccall' = NoResult

\* build_wheel or build_sdist is called on the project pp of the file system
\* files, with a backend of the hooks bhooks that behave as behaviour: build,
\* lines 237-256, up to the call of call_hook (the output directory can be
\* created)
BuildStart(cmd, files, pp, bhooks, behaviour) ==
    /\ bpc = "idle"
    /\ Len(built) < MaxBuilds
    /\ cmd \in SUPPORTED_BUILD_HOOKS
    /\ command' = cmd
    /\ hook' = cmd
    /\ fs' = files
    /\ pyproject' = pp
    /\ backendHooks' = bhooks
    /\ hookBehaviour' = behaviour
    /\ filename' = NoResult
    /\ \E e \in {validate_source_dir(files, SrcDir, pp)} :
          IF e = NoError
          THEN /\ bpc' = "call_hook"
               /\ berror' = NoError
               /\ built' = built
               /\ StartCallHook
          ELSE /\ bpc' = "idle"
               /\ berror' = e
               /\ built' = Append(built, Built(cmd, FALSE, <<>>))
               /\ UNCHANGED <<parentVars, threadVars, events, pipe, childVars>>
    /\ UNCHANGED <<verbose, tracker, installVars>>

\* dict.__getitem__ of hook_result["result"]: [ok, val]
GetResult(hook_result) ==
    IF hook_result.k # "obj" THEN [ok |-> FALSE, val |-> JNull]
    ELSE IF \E i \in DOMAIN hook_result.items :
                i % 2 = 1 /\ hook_result.items[i] = JStr(ResultKey)
        THEN [ok |-> TRUE,
              val |-> hook_result.items[
                        1 + CHOOSE i \in DOMAIN hook_result.items :
                                i % 2 = 1 /\ hook_result.items[i] = JStr(ResultKey)]]
    ELSE [ok |-> FALSE, val |-> JNull]

\* build, lines 258-265: call_hook has raised, or it has returned and build
\* returns hook_result["result"]; build_sdist ends here
BuildReturn ==
    /\ bpc = "call_hook"
    /\ command \in SUPPORTED_BUILD_HOOKS
    /\ pc \in {"returned", "raised"}
    /\ \E r \in {GetResult(result)} :
          IF pc = "raised" \/ ~r.ok
          THEN /\ berror' = IF pc = "raised" THEN error
                            ELSE Error("LookupError", "result")
               /\ bpc' = "idle"
               /\ filename' = filename
               /\ built' = Append(built, Built(command, FALSE, <<>>))
          ELSE /\ berror' = berror
               /\ filename' = r.val
               /\ IF command = "build_wheel"
                  THEN /\ bpc' = "write_tracker"
                       /\ built' = built
                  ELSE /\ bpc' = "idle"
                       /\ built' = Append(built, Built(command, TRUE, r.val))
    /\ UNCHANGED <<fs, pyproject, hook, backendHooks, hookBehaviour, verbose,
                   command, tracker, installVars, parentVars, threadVars,
                   events, pipe, childVars>>

\* str.format of a value that is a string, or None
FormatValue(v) == IF v.k = "str" THEN v.s ELSE <<78, 111, 110, 101>>

\* a build_wheel that does not write the tracker file
MutWriteTracker ==
    /\ bpc = "write_tracker"
    /\ tracker' = tracker
    /\ bpc' = "idle"
    /\ built' = Append(built, Built(command, TRUE, filename))
    /\ UNCHANGED <<fs, pyproject, hook, backendHooks, hookBehaviour, verbose,
                   command, berror, filename, installVars, parentVars,
                   threadVars, events, pipe, childVars>>

\* build_wheel, line 279: the tracker file is written
WriteTracker ==
    /\ bpc = "write_tracker"
    /\ tracker' = [exists |-> TRUE, text |-> FormatValue(filename) \o <<10>>]
    /\ bpc' = "idle"
    /\ built' = Append(built, Built(command, TRUE, filename))
    /\ UNCHANGED <<fs, pyproject, hook, backendHooks, hookBehaviour, verbose,
                   command, berror, filename, installVars, parentVars,
                   threadVars, events, pipe, childVars>>

----
(***************************************************************************)
(* The inputs the specifications draw from.                                *)
(***************************************************************************)
\* strings given as backend-path entries
PathStrings ==
    { <<".">>, <<".", "be">>, <<"src">>, <<"ln_be">>, <<"ln_out">>, <<"loop">>,
      <<"missing">>, <<"..", "out">>, <<"/", "out">>, <<"/", "proj", "be">>,
      <<"setup.py", "x">> }

PathItems == {TStr(p) : p \in PathStrings} \cup {TInt}

PathLists == UNION {[1..n -> PathItems] : n \in 0..MaxPathEntries}

RequiresValues ==
    { TStr(<<"setuptools">>),
      TList(<<TStr(<<"setuptools">>)>>),
      TList(<<TStr(<<"setuptools">>), TInt>>) }

BackendValues == {TStr(<<"be">>), TStr(<<"be", ":", "obj">>), TInt}

BackendPathValues == {TStr(<<"be">>)} \cup {TList(l) : l \in PathLists}

ProjectFile(state, table, keys, requires, backend, backend_path) ==
    [state |-> state, has_build_system |-> table, keys |-> keys,
     requires |-> requires, backend |-> backend, backend_path |-> backend_path]

\* a project file with a build-system table of the given keys
Table(keys, requires, backend, backend_path) ==
    ProjectFile("valid", TRUE, keys, requires, backend, backend_path)

NoTable(state) == ProjectFile(state, FALSE, {}, TInt, TInt, TInt)

\* every project file: a key the table lacks has no value to vary
ProjectFiles ==
    {NoTable("absent"), NoTable("invalid"), NoTable("valid")}
    \cup { Table(keys, r, b, p) :
             keys \in SUBSET {"requires", "build-backend", "backend-path"},
             r \in RequiresValues, b \in BackendValues, p \in BackendPathValues }

WellKeyed(pp) ==
    /\ "requires" \notin pp.keys => pp.requires = TInt
    /\ "build-backend" \notin pp.keys => pp.backend = TInt
    /\ "backend-path" \notin pp.keys => pp.backend_path = TInt

\* the project files of the runs that look at the pipe
FewProjectFiles ==
    { NoTable("absent"),
      NoTable("invalid"),
      Table({"requires", "build-backend"},
            TList(<<TStr(<<"setuptools">>)>>), TStr(<<"be">>), TInt),
      Table({"requires", "build-backend", "backend-path"},
            TList(<<TStr(<<"setuptools">>)>>), TStr(<<"be">>),
            TList(<<TStr(<<".", "be">>)>>)),
      Table({"requires", "build-backend", "backend-path"},
            TList(<<TStr(<<"setuptools">>)>>), TStr(<<"be", ":", "obj">>),
            TList(<<TStr(<<"src">>), TStr(<<"ln_be">>)>>)) }

\* "a.whl"
WheelName == <<97, 46, 119, 104, 108>>

HookBehaviours ==
    { Returns(JStr(WheelName)),
      Returns(JList(<<JStr(<<98>>), JStr(<<99, 34, 233>>)>>)),
      Raises,
      Exits,
      Writes(<<105, 110, 118>>),
      Writes(<<255>>),
      Writes(<<91, 93>>) }

Hooks ==
    {"build_wheel", "build_sdist", "get_requires_for_build_wheel",
     "get_requires_for_build_sdist"}

NoTamper == [kind |-> "none", path |-> <<>>, pos |-> 0, byte |-> 0]

NoWheel == [files |-> <<>>, has_record |-> FALSE, record |-> <<>>]

NoProject ==
    [name |-> <<>>, license_files |-> <<>>, readme |-> FALSE, license |-> FALSE,
     dynamic |-> FALSE, root |-> {}, package |-> {}]

NoEpoch == [set |-> FALSE, value |-> 0]

NoArchive == [kind |-> "none", filename |-> <<>>, mtime |-> 0, members |-> <<>>]

NoStamp == [now |-> 0, mtime |-> 0]

\* the backend builds nothing
BackendIdle ==
    /\ project = NoProject
    /\ epoch = NoEpoch
    /\ kpc = "idle"
    /\ archive = NoArchive
    /\ records = <<>>
    /\ archives = <<>>
    /\ stamp = NoStamp
    /\ raised = ""

NoBackend == [prepare |-> FALSE, content |-> <<>>, wheel_name |-> <<>>]

NoFiles == <<>>

\* build_metadata has not been called
MetadataIdle ==
    /\ mbackend = NoBackend
    /\ mpc = "idle"
    /\ mcalls = <<>>
    /\ mhook = ""
    /\ scratch = NoFiles
    /\ outdir = NoFiles
    /\ mresult = ""

NoDepsFile == [canonical |-> FALSE, sources |-> <<>>]

\* sync has not been called
DepsIdle ==
    /\ depsfile = NoDepsFile
    /\ collected = <<>>
    /\ dcalls = <<>>
    /\ shown = <<>>

NoGroupError == [kind |-> "", chain |-> <<>>]

\* no group is resolved
GroupsIdle ==
    /\ groups = <<>>
    /\ request = <<>>
    /\ gpc = "idle"
    /\ gstack = <<>>
    /\ gout = <<>>
    /\ gerror = NoGroupError

\* none of the other commands runs
ToolsIdle == MetadataIdle /\ DepsIdle /\ GroupsIdle

\* install_wheel has not been called
InstallerIdle ==
    /\ wheel = NoWheel
    /\ strip_dist_info = TRUE
    /\ tamper = NoTamper
    /\ ipc = "idle"
    /\ ierror = ""
    /\ installed = {}
    /\ wheel_name = <<>>
    /\ zip_file = FALSE
    /\ installer = [given |-> FALSE, text |-> <<>>]
    /\ executable = <<>>
    /\ opened = FALSE
    /\ dist_info = ""
    /\ warned = FALSE
    /\ launchers = <<>>
    /\ installer_file = <<>>
    /\ data_files = <<>>

\* no wheel is being installed
InstallIdle == InstallerIdle /\ BackendIdle /\ ToolsIdle

\* call_hook has not started its thread nor its child
NotRunning ==
    /\ build_system = NoBuildSystem
    /\ rfd = "unset"
    /\ wfd = "unset"
    /\ tstate = "unstarted"
    /\ texc = FALSE
    /\ started = 0
    /\ joined = FALSE
    /\ read = <<>>
    /\ result = NoResult
    /\ error = NoError
    /\ events = <<>>
    /\ pipe = <<>>
    /\ cpc = "none"
    /\ cargs = NoArgs
    /\ cstatus = 0
    /\ cfile = <<>>
    /\ cresult = <<>>
    /\ csent = 0
    /\ cexc = NoError
    /\ cstdout = <<>>
    /\ cstderr = <<>>
    /\ ccall = NoResult

\* call_hook is called
InitRun ==
    /\ pc = "parse"
    /\ NotRunning

\* no tracker file
NoTracker == [exists |-> FALSE, text |-> <<>>]

\* call_hook is called by itself, not by build_wheel or build_sdist
DirectCall ==
    /\ command = "call_hook"
    /\ bpc = "call_hook"
    /\ berror = NoError
    /\ filename = NoResult
    /\ tracker = NoTracker
    /\ built = <<>>

Init ==
    /\ fs \in FileSystems
    /\ pyproject \in FewProjectFiles
    /\ hook \in Hooks
    /\ backendHooks \in {{}, Hooks}
    /\ hookBehaviour \in HookBehaviours
    /\ verbose \in BOOLEAN
    /\ InitRun
    /\ DirectCall
    /\ InstallIdle

Next == ParentNext \/ ReaderNext \/ ChildNext

vars == <<hookVars, installVars>>

Spec == Init /\ [][Next]_vars

\* the scheduler runs the parent, the reader thread and the child whenever
\* they can take a step; os.read failing is not forced
FairSpec ==
    /\ Init
    /\ [][Next]_vars
    /\ WF_vars(ParentNext)
    /\ WF_vars(ReaderRead \/ ReaderEof \/ ReaderBadFd)
    /\ WF_vars(ChildNext)

\* the runs that look at the build-system table: every project file, one
\* file system, a hook that writes two bytes
InitBuildSystem ==
    /\ fs = BaseFS @@ (<<"proj", "be", "be.py">> :> Node("file"))
    /\ pyproject \in {pp \in ProjectFiles : WellKeyed(pp)}
    /\ hook = "build_wheel"
    /\ backendHooks \in {{}, Hooks}
    /\ hookBehaviour = Writes(<<91, 93>>)
    /\ verbose = FALSE
    /\ InitRun
    /\ DirectCall
    /\ InstallIdle

SpecBuildSystem == InitBuildSystem /\ [][Next]_vars

\* "b.whl"
OtherWheelName == <<98, 46, 119, 104, 108>>

\* the project with the in-tree backend be
BackendProject ==
    Table({"requires", "build-backend", "backend-path"},
          TList(<<TStr(<<"setuptools">>)>>), TStr(<<"be">>),
          TList(<<TStr(<<".", "be">>)>>))

BackendFS == BaseFS @@ (<<"proj", "be", "be.py">> :> Node("file"))

\* a source directory with neither pyproject.toml nor setup.py
NotProjectFS ==
    [p \in DOMAIN BaseFS \ {<<"proj", "setup.py">>} |-> BaseFS[p]]

\* the projects build_wheel and build_sdist are called on:
\* <<file system, project file, hooks of the backend, behaviour of the hook>>
BuildScenarios ==
    { <<BackendFS, BackendProject, Hooks, Returns(JStr(WheelName))>>,
      <<BackendFS, BackendProject, Hooks, Returns(JStr(OtherWheelName))>>,
      <<BackendFS, BackendProject, Hooks, Raises>>,
      <<BackendFS, BackendProject, Hooks, Writes(<<91, 93>>)>>,
      <<BackendFS, BackendProject, {}, Exits>>,
      <<BackendFS, NoTable("invalid"), Hooks, Exits>>,
      <<NotProjectFS, NoTable("absent"), Hooks, Exits>> }

\* the runs of build_wheel and build_sdist: no call has been made
InitBuild ==
    /\ fs = BackendFS
    /\ pyproject = BackendProject
    /\ hook = "build_wheel"
    /\ backendHooks = Hooks
    /\ hookBehaviour = Exits
    /\ verbose \in BOOLEAN
    /\ pc = "idle"
    /\ NotRunning
    /\ command = "build_wheel"
    /\ bpc = "idle"
    /\ berror = NoError
    /\ filename = NoResult
    /\ tracker = NoTracker
    /\ built = <<>>
    /\ InstallIdle

BuildCall ==
    \E cmd \in SUPPORTED_BUILD_HOOKS : \E sc \in BuildScenarios :
        BuildStart(cmd, sc[1], sc[2], sc[3], sc[4])

BuildNext == BuildCall \/ BuildReturn \/ WriteTracker \/ Next

SpecBuild == InitBuild /\ [][BuildNext]_vars

Final == {"returned", "raised"}

(***************************************************************************)
(* Claims about call_hook, the pipe and the child helper.                  *)
(***************************************************************************)
\* the bytes the child has written to the result descriptor so far
ChildWritten == Take(cresult, csent)

\* the steps of the parent and the exit of the child, in order
ParentSteps ==
    SelectSeq(events, LAMBDA e : e \in {"pipe", "thread", "spawn", "exit0", "exit1",
                                         "close_wfd", "join", "loads"})

\* C1: if the child terminates, call_hook terminates, whatever the size of
\* the result; and while the reader thread has not failed, a child that is
\* writing its result gets all of it written, also when the result is
\* larger than the pipe: it is never blocked for ever on a full pipe.
C1_CallHookTerminates ==
    /\ (cpc = "exited") ~> (pc \in Final)
    /\ [](cpc = "write" => <>(csent = Len(cresult) \/ texc))

\* a result larger than the pipe has been returned
C1_Witness ==
    /\ pc = "returned"
    /\ hookBehaviour.kind = "return"
    /\ Len(cresult) > PipeCapacity
    /\ Len(read) > PipeCapacity

\* C2: every call_hook that has set up its pipe has started exactly one
\* reader thread and has joined it when it hands control back, whether it
\* returns or raises.
C2_ThreadJoinedOnReturn ==
    (pc \in Final /\ rfd # "unset") => (started = 1 /\ joined)

\* C3: a call_hook that returns has created the pipe, started the thread,
\* spawned the child, seen it exit with status 0, closed its write end,
\* joined the thread and parsed, in this order; the thread is never joined
\* while the parent's write end is open, and nothing is parsed before the
\* join.
C3_StepsInOrder ==
    /\ pc = "returned" =>
          ParentSteps = <<"pipe", "thread", "spawn", "exit0", "close_wfd", "join", "loads">>
    /\ joined => wfd = "closed"
    /\ pc \in {"loads", "returned"} => joined
    /\ \A i \in DOMAIN events : events[i] = "loads" => joined

C3_Witness ==
    /\ pc = "returned"
    /\ result # NoResult
    /\ joined

\* the bytes decode as UTF-8 text that is JSON
IsJson(bytes) == Utf8Decode(bytes).ok /\ Loads(Utf8Decode(bytes).text).ok

\* C4: call_hook returns only if the child exited with 0, the reader thread
\* did not raise and the bytes read are JSON; once the thread is joined, a
\* thread exception, an empty channel and bytes that are not JSON each
\* raise RuntimeError, and for text that is not JSON the error holds the
\* data received.
C4_ReturnsOnlyValidJson ==
    /\ pc = "returned" => (cpc = "exited" /\ cstatus = 0 /\ ~texc /\ IsJson(read))
    /\ (pc = "raised" /\ joined) => error.type = "RuntimeError"
    /\ (pc = "raised" /\ joined /\ ~texc /\ Utf8Decode(read).ok) =>
          error.data = Utf8Decode(read).text

\* C5: when the parent parses, it has read exactly the bytes the child
\* wrote, all of them and in order; what call_hook then returns for a hook
\* that returned a value (or for the fallback of a missing optional hook) is
\* the object whose member "result" is that value.
C5_ReadIsWhatWasWritten ==
    /\ pc = "loads" => (cstatus = 0 /\ read = ChildWritten /\ read = cresult)
    /\ (pc = "returned" /\ hookBehaviour.kind = "return"
            /\ "called" \in Range(events)) =>
          result = HookResult(hookBehaviour.val)
    /\ (pc = "returned" /\ "fallback" \in Range(events)) =>
          result = HookResult(JList(<<>>))

\* a result that went through the pipe in several writes has been returned
C5_Witness ==
    /\ pc = "returned"
    /\ hookBehaviour.kind = "return"
    /\ Len(cresult) > PipeCapacity
    /\ result = HookResult(hookBehaviour.val)

\* the file the backend module was loaded from lies below an entry of the
\* backend-path given to the child
LoadedFromBackendPath ==
    /\ cfile # <<>>
    /\ \E i \in DOMAIN cargs.backend_path :
          LET dir == Walk(fs, <<>>, Tail(SrcDir) \o PathParts(cargs.backend_path[i]),
                          MaxSymlinks)
          IN  dir.ok /\ IsPrefix(<<"/">> \o dir.at, cfile)

HookTouched == {"getattr", "fallback", "called"} \cap Range(events) # {}

\* C8: with a backend-path, the helper looks up and calls a hook only if the
\* file of the imported backend lies below one of the entries; otherwise it
\* fails before any hook is looked up or called and writes nothing.
C8_BackendLoadedFromBackendPath ==
    (cpc # "none" /\ cargs.has_path /\ ~LoadedFromBackendPath) =>
        /\ ~HookTouched
        /\ csent = 0
        /\ pipe = <<>>
        /\ read = <<>>
        /\ cpc \in {"backend_object", "exited"}
        /\ cpc = "exited" => cstatus # 0

\* the backend was found, but not below backend-path: the child has failed
C8_Witness ==
    /\ cargs.has_path
    /\ cpc = "exited"
    /\ cstatus # 0
    /\ cfile # <<>>
    /\ ~LoadedFromBackendPath
    /\ pc = "raised"

(***************************************************************************)
(* Claims about the build-system table.                                    *)
(***************************************************************************)
\* a path string that is relative and, below the project root, resolves
\* (symbolic links followed) to a location inside the root
InsideRoot(path) ==
    /\ path = <<>> \/ Head(path) # "/"
    /\ Walk(fs, <<>>, Tail(SrcDir) \o path, MaxSymlinks).ok
    /\ IsPrefix(Tail(SrcDir), Walk(fs, <<>>, Tail(SrcDir) \o path, MaxSymlinks).at)

ListOfStrings(value) ==
    value.t = "list" /\ \A i \in DOMAIN value.items : value.items[i].t = "str"

\* the table has a malformed requires
BadRequires ==
    /\ pyproject.state = "valid"
    /\ pyproject.has_build_system
    /\ "requires" \in pyproject.keys
    /\ ~ListOfStrings(pyproject.requires)

\* the table has a malformed backend-path: not a list of strings, or some
\* entry, at whatever position, is absolute, unresolvable or outside the root
BadBackendPath ==
    /\ pyproject.state = "valid"
    /\ pyproject.has_build_system
    /\ "backend-path" \in pyproject.keys
    /\ \/ ~ListOfStrings(pyproject.backend_path)
       \/ \E i \in DOMAIN pyproject.backend_path.items :
              ~InsideRoot(pyproject.backend_path.items[i].v)

\* the build has failed in parse_build_system_spec, no child was spawned
FailedBeforeSpawn ==
    /\ pc \in {"parse", "raised"}
    /\ pc = "raised" => error # NoError
    /\ cpc = "none"
    /\ "spawn" \notin Range(events)
    /\ rfd = "unset"

\* C6 as stated: a malformed requires or a malformed backend-path makes the
\* build fail with an error before a subprocess is spawned.
C6_MalformedTableFails ==
    (BadRequires \/ BadBackendPath) => FailedBeforeSpawn

\* C6, amended: a malformed requires, or a malformed backend-path in a table
\* that has the build-backend key, makes the build fail with an error before
\* a subprocess is spawned (without build-backend the table's backend-path
\* is not looked at and the default backend is used).
C6_MalformedTableFailsWithBackend ==
    (BadRequires \/ (BadBackendPath /\ "build-backend" \in pyproject.keys))
        => FailedBeforeSpawn

\* the build has failed on the second entry of a backend-path whose first
\* entry is fine
C6_Witness ==
    /\ pc = "raised"
    /\ "build-backend" \in pyproject.keys
    /\ pyproject.backend.t = "str"
    /\ ~BadRequires
    /\ BadBackendPath
    /\ ListOfStrings(pyproject.backend_path)
    /\ Len(pyproject.backend_path.items) = 2
    /\ InsideRoot(pyproject.backend_path.items[1].v)
    /\ cpc = "none"

\* C7: every entry of the backend_path of a parsed build system is relative
\* and resolves, symbolic links followed, inside the project root; the
\* backend path handed to the child is such a one.
C7_BackendPathInsideRoot ==
    /\ \A i \in DOMAIN build_system.backend_path :
          InsideRoot(build_system.backend_path[i])
    /\ \A i \in DOMAIN cargs.backend_path : InsideRoot(cargs.backend_path[i])

\* the child got a backend path of two entries, one of them a symbolic link
C7_Witness ==
    /\ cpc # "none"
    /\ cargs.has_path
    /\ Len(cargs.backend_path) = 2
    /\ <<"ln_be">> \in Range(cargs.backend_path)
    /\ build_system.backend_path = cargs.backend_path

(***************************************************************************)
(* install_wheel (install_cmd/_install.py).  A wheel is [files, has_record,*)
(* record]: files maps the path of every member but RECORD to its bytes,   *)
(* has_record tells whether RECORD is a member, record is what csv.reader  *)
(* yields for RECORD: rows, each a sequence of fields (sequences of        *)
(* character codes; the path field is kept as the path's components).      *)
(* The wheels of the model are named foo-1.0-py3-none-any.whl and have     *)
(* neither entry_points.txt nor a .data directory.                         *)
(***************************************************************************)
DistInfo == "foo-1.0.dist-info"

RecordPath == <<DistInfo, "RECORD">>

MetadataPath == <<DistInfo, "METADATA">>

WheelPath == <<DistInfo, "WHEEL">>

JwsPath == <<DistInfo, "RECORD.jws">>

P7sPath == <<DistInfo, "RECORD.p7s">>

ModulePath == <<"foo.py">>

\* a path no wheel of the model has a member for
StrayPath == <<"non_content.py">>

\* WheelFile.memberlist
memberlist(w) == DOMAIN w.files \cup (IF w.has_record THEN {RecordPath} ELSE {})

\* "sha256", "SHA256", "md5", "sha1", "sha999"
Sha256Name == <<115, 104, 97, 50, 53, 54>>

Sha256Upper == <<83, 72, 65, 50, 53, 54>>

Md5Name == <<109, 100, 53>>

Sha1Name == <<115, 104, 97, 49>>

\* "MD5", "ShA1"
Md5Upper == <<77, 68, 53>>

Sha1Mixed == <<83, 104, 65, 49>>

UnknownName == <<115, 104, 97, 57, 57, 57>>

\* str.lower on ASCII
Lower(text) ==
    [i \in DOMAIN text |-> IF text[i] >= 65 /\ text[i] <= 90 THEN text[i] + 32
                           ELSE text[i]]

\* the algorithms hashlib.new knows: a number for each, 0 for a name that
\* makes hashlib.new raise ValueError
AlgorithmId(name) ==
    CASE name = Sha256Name -> 1
      [] name = Md5Name -> 2
      [] name = Sha1Name -> 3
      [] OTHER -> 0

\* hashlib.new(name, data).digest() stands on a digest of four bytes: the
\* first tells the algorithm, three mix every byte of data at its position
\* (two contents that differ in one byte never have the same digest): the
\* bytes are the digits, each plus one, of a number in base 127, read
\* modulo 2^24
MulMod(x, y) ==
    ((x % 4096) * (y % 4096)
        + (((x \div 4096) * (y % 4096) + (x % 4096) * (y \div 4096)) % 4096) * 4096)
    % 16777216

\* 127^k modulo 2^24
RECURSIVE Pow127(_)
Pow127(k) ==
    IF k = 0 THEN 1
    ELSE IF k % 2 = 1 THEN MulMod(127, Pow127(k - 1))
    ELSE The({MulMod(half, half) : half \in {Pow127(k \div 2)}})

\* the number the bytes lo..hi of data are the digits of
RECURSIVE MixOf(_, _, _)
MixOf(data, lo, hi) ==
    IF lo > hi THEN 0
    ELSE IF lo = hi THEN data[lo] + 1
    ELSE The({ (MulMod(MixOf(data, lo, mid), Pow127(hi - mid))
                   + MixOf(data, mid + 1, hi)) % 16777216 :
               mid \in {(lo + hi) \div 2} })

Mix(h, data) == (MulMod(h, Pow127(Len(data))) + MixOf(data, 1, Len(data))) % 16777216

DigestOf(h, id) == <<id, h \div 65536, (h \div 256) % 256, h % 256>>

Digest(name, data) == The({DigestOf(h, AlgorithmId(name)) : h \in {Mix(0, data)}})

\* the alphabet of base64.urlsafe_b64encode: A-Z a-z 0-9 - _
B64Char(n) ==
    IF n < 26 THEN 65 + n
    ELSE IF n < 52 THEN 97 + (n - 26)
    ELSE IF n < 62 THEN 48 + (n - 52)
    ELSE IF n = 62 THEN 45
    ELSE 95

\* base64.urlsafe_b64encode: groups of three bytes, "=" padding at the end
RECURSIVE B64Encode(_)
B64Encode(b) ==
    IF b = <<>> THEN <<>>
    ELSE IF Len(b) = 1
        THEN <<B64Char(b[1] \div 4), B64Char((b[1] % 4) * 16), 61, 61>>
    ELSE IF Len(b) = 2
        THEN <<B64Char(b[1] \div 4),
               B64Char((b[1] % 4) * 16 + b[2] \div 16),
               B64Char((b[2] % 16) * 4), 61>>
    ELSE <<B64Char(b[1] \div 4),
           B64Char((b[1] % 4) * 16 + b[2] \div 16),
           B64Char((b[2] % 16) * 4 + b[3] \div 64),
           B64Char(b[3] % 64)>> \o B64Encode(Drop(b, 3))

\* bytes.rstrip(b"=")
RECURSIVE RStripEq(_)
RStripEq(text) ==
    IF text # <<>> /\ text[Len(text)] = 61 THEN RStripEq(Take(text, Len(text) - 1))
    ELSE text

digest_for_record(name, data) == RStripEq(B64Encode(Digest(name, data)))

\* str.partition("="): [head, tail] around the first "="; all of the text
\* is the head when it has none
RECURSIVE PartitionEq(_, _)
PartitionEq(text, before) ==
    IF text = <<>> THEN [head |-> before, tail |-> <<>>]
    ELSE IF Head(text) = 61 THEN [head |-> before, tail |-> Tail(text)]
    ELSE PartitionEq(Tail(text), Append(before, Head(text)))

\* the messages of the ValueErrors (the text before the data they quote)
ErrMissingDistInfo == "Missing mandatory dist-info directory"

ErrMissingMetadata == "Missing mandatory METADATA in dist-info directory"

ErrMissingWheel == "Missing mandatory WHEEL in dist-info directory"

ErrMissingRecord == "Missing mandatory RECORD in dist-info directory"

ErrMissingVersion == "Missing version number of Wheel spec"

ErrInvalidVersion == "Invalid version number of Wheel spec"

ErrIncompatibleVersion == "Incompatible version of Wheel spec"

ErrFields == "Invalid number of fields in RECORD row"

ErrMultiple == "Multiple records for"

ErrNotPackaged == "Not packaged file but recorded in RECORD"

ErrEmptyRecord == "Empty RECORD file"

ErrExtraPackaged == "Extra packaged files not recorded in RECORD"

ErrInvalidHash == "Invalid hash record"

ErrWeakHash == "Too weak hash algorithm for records"

ErrUnsupportedHash == "unsupported hash type"

ErrIncorrectHash == "Incorrect hash for recorded file"

\* a check that does not compare the digest
MutCheckHash(hash_name, hash_value, data) ==
    IF hash_name = <<>> \/ hash_value = <<>> THEN ErrInvalidHash
    ELSE IF Lower(hash_name) \in {Md5Name, Sha1Name} THEN ErrWeakHash
    ELSE IF AlgorithmId(Lower(hash_name)) = 0 THEN ErrUnsupportedHash
    ELSE ""

\* validate_hash_record, after the partition: "" or the error raised
CheckHash(hash_name, hash_value, data) ==
    IF hash_name = <<>> \/ hash_value = <<>> THEN ErrInvalidHash
    ELSE IF Lower(hash_name) \in {Md5Name, Sha1Name} THEN ErrWeakHash
    ELSE IF AlgorithmId(Lower(hash_name)) = 0 THEN ErrUnsupportedHash
    ELSE IF digest_for_record(Lower(hash_name), data) # hash_value
        THEN ErrIncorrectHash
    ELSE ""

\* a check that knows the weak algorithms by their lower-case names only
MutValidateHashRecord(w, recorded_file, hash_info) ==
    The({ IF Lower(h.head) \in {Md5Name, Sha1Name} /\ h.head # Lower(h.head)
              THEN (IF digest_for_record(Lower(h.head), w.files[recorded_file]) # h.tail
                        THEN ErrIncorrectHash ELSE "")
          ELSE CheckHash(h.head, h.tail, w.files[recorded_file]) :
            h \in {PartitionEq(hash_info, <<>>)}})

validate_hash_record(w, recorded_file, hash_info) ==
    The({CheckHash(h.head, h.tail, w.files[recorded_file]) :
            h \in {PartitionEq(hash_info, <<>>)}})

\* the loop of validate_record over the rows from row i on; recorded_files
\* is the set built so far.  [err, recorded_files]
RECURSIVE ValidateRows(_, _, _)

\* the row has three fields
ValidateRow(w, i, recorded_files) ==
    IF w.record[i][1] \in recorded_files
        THEN [err |-> ErrMultiple, recorded_files |-> recorded_files]
    ELSE IF w.record[i][1] \notin memberlist(w)
        THEN [err |-> ErrNotPackaged, recorded_files |-> recorded_files]
    ELSE IF w.record[i][1] # RecordPath
            /\ validate_hash_record(w, w.record[i][1], w.record[i][2]) # ""
        THEN [err |-> validate_hash_record(w, w.record[i][1], w.record[i][2]),
              recorded_files |-> recorded_files]
    ELSE The({ValidateRows(w, i + 1, r) :
                 r \in {recorded_files \cup {w.record[i][1]}}})

ValidateRows(w, i, recorded_files) ==
    IF i > Len(w.record) THEN [err |-> "", recorded_files |-> recorded_files]
    ELSE IF Len(w.record[i]) # 3
        THEN [err |-> ErrFields, recorded_files |-> recorded_files]
    ELSE ValidateRow(w, i, recorded_files)

\* not recorded signatures from dist-info
UNRECORDED_FILES == {JwsPath, P7sPath}

\* an end of validate_record that lets RECORD itself go unrecorded
MutCheckRecorded(w, rows) ==
    IF rows.err # "" THEN rows.err
    ELSE IF rows.recorded_files = {} THEN ErrEmptyRecord
    ELSE IF (memberlist(w) \ rows.recorded_files) \ (UNRECORDED_FILES \cup {RecordPath}) # {}
        THEN ErrExtraPackaged
    ELSE ""

\* validate_record, after the loop
CheckRecorded(w, rows) ==
    IF rows.err # "" THEN rows.err
    ELSE IF rows.recorded_files = {} THEN ErrEmptyRecord
    ELSE IF (memberlist(w) \ rows.recorded_files) \ UNRECORDED_FILES # {}
        THEN ErrExtraPackaged
    ELSE ""

\* validate_record: "" or the message of the ValueError
validate_record(w) == The({CheckRecorded(w, rows) : rows \in {ValidateRows(w, 1, {})}})

\* validate_dist_info: the directory is there when a member lies below it
validate_dist_info(w, dist_info_name) ==
    IF ~\E m \in memberlist(w) : Len(m) > 1 /\ m[1] = dist_info_name
        THEN ErrMissingDistInfo
    ELSE IF <<dist_info_name, "METADATA">> \notin memberlist(w) THEN ErrMissingMetadata
    ELSE IF <<dist_info_name, "WHEEL">> \notin memberlist(w) THEN ErrMissingWheel
    ELSE IF <<dist_info_name, "RECORD">> \notin memberlist(w) THEN ErrMissingRecord
    ELSE ""

\* the WHEEL file of the model holds one header, written "W:" for
\* "Wheel-Version:"; [found, text] is wheel_metadata["Wheel-Version"]
WheelVersionHeader(data) ==
    IF Len(data) >= 2 /\ data[1] = 87 /\ data[2] = 58
    THEN [found |-> TRUE, text |-> Drop(data, 2)]
    ELSE [found |-> FALSE, text |-> <<>>]

\* str.strip of blanks
RECURSIVE Strip(_)
Strip(text) ==
    IF text # <<>> /\ Head(text) = 32 THEN Strip(Tail(text))
    ELSE IF text # <<>> /\ text[Len(text)] = 32 THEN Strip(Take(text, Len(text) - 1))
    ELSE text

\* str.split("."): the parts, cur being the part in progress
RECURSIVE SplitDot(_, _)
SplitDot(text, cur) ==
    IF text = <<>> THEN <<cur>>
    ELSE IF Head(text) = 46 THEN <<cur>> \o SplitDot(Tail(text), <<>>)
    ELSE SplitDot(Tail(text), Append(cur, Head(text)))

\* int(x) succeeds: decimal digits (signs, blanks and underscores are not
\* in the texts of the model)
IsInt(x) == x # <<>> /\ \A i \in DOMAIN x : IsDigit(x[i])

RECURSIVE IntValue(_, _)
IntValue(x, acc) ==
    IF x = <<>> THEN acc ELSE IntValue(Tail(x), acc * 10 + (Head(x) - 48))

\* WHEEL_SPECIFICATION_VERSION[0]
WheelSpecMajor == 1

\* the checks on the parts of the version
CheckVersionParts(parts) ==
    IF \E i \in DOMAIN parts : ~IsInt(parts[i]) THEN ErrInvalidVersion
    ELSE IF IntValue(parts[1], 0) > WheelSpecMajor THEN ErrIncompatibleVersion
    ELSE ""

\* validate_wheel_spec_version: "" or the message of the ValueError
validate_wheel_spec_version(w) ==
    The({ IF ~h.found THEN ErrMissingVersion
          ELSE The({CheckVersionParts(parts) : parts \in {SplitDot(Strip(h.text), <<>>)}}) :
          h \in {WheelVersionHeader(w.files[WheelPath])} })

ALLOW_DIST_INFO_LIST == {"METADATA", "entry_points.txt"}

DENY_DIST_INFO_LIST == {"RECORD"}

\* pathlib's Path(file).parts: "." components are dropped
Parts(path) == SelectSeq(path, LAMBDA c : c # ".")

\* where ZipFile.extractall puts a member: "." and ".." components are
\* dropped from its name
ExtractPath(path) == SelectSeq(path, LAMBDA c : c \notin {".", ".."})

\* filter_dist_info: the members that are extracted
filter_dist_info(dist_info_name, members, strip) ==
    { file \in members :
        Parts(file)[1] = dist_info_name =>
            /\ ~(strip /\ file \notin {<<dist_info_name, f>> : f \in ALLOW_DIST_INFO_LIST})
            /\ file \notin {<<dist_info_name, f>> : f \in DENY_DIST_INFO_LIST} }

\* ".whl"
WhlSuffix == <<46, 119, 104, 108>>

\* "foo", "1.0"
FooName == <<102, 111, 111>>

FooVersion == <<49, 46, 48>>

ErrBadZipFile == "File is not a zip file"

ErrInvalidName == "Invalid wheel filename"

\* str.endswith
EndsWith(text, suffix) ==
    /\ Len(text) >= Len(suffix)
    /\ Drop(text, Len(text) - Len(suffix)) = suffix

\* str.split(sep): the parts, cur being the part in progress
RECURSIVE Split(_, _, _)
Split(text, sep, cur) ==
    IF text = <<>> THEN <<cur>>
    ELSE IF Head(text) = sep THEN <<cur>> \o Split(Tail(text), sep, <<>>)
    ELSE Split(Tail(text), sep, Append(cur, Head(text)))

\* checks that let an empty version pass
MutCheckNameParts(name_parts) ==
    IF Len(name_parts) \notin {5, 6} THEN ErrInvalidName
    ELSE IF name_parts[1] = <<>> THEN ErrInvalidName
    ELSE ""

\* the checks of parse_name on the parts of the name
CheckNameParts(name_parts) ==
    IF Len(name_parts) \notin {5, 6} THEN ErrInvalidName
    ELSE IF name_parts[1] = <<>> THEN ErrInvalidName
    ELSE IF name_parts[2] = <<>> THEN ErrInvalidName
    ELSE ""

\* WheelFile.parse_name: [err, dist_name, dist_version]
parse_name(name) ==
    IF ~EndsWith(name, WhlSuffix)
        THEN [err |-> ErrInvalidName, dist_name |-> <<>>, dist_version |-> <<>>]
    ELSE The({ IF CheckNameParts(name_parts) # ""
                  THEN [err |-> CheckNameParts(name_parts),
                        dist_name |-> <<>>, dist_version |-> <<>>]
               ELSE [err |-> "", dist_name |-> name_parts[1],
                     dist_version |-> name_parts[2]] :
               name_parts \in {Split(Take(name, Len(name) - Len(WhlSuffix)), 45, <<>>)} })

\* f"{dist_name}-{dist_version}.dist-info" as the path component it is: the
\* file names of the model are those of foo 1.0 and of other distributions
DistInfoName(dist_name, dist_version) ==
    IF dist_name = FooName /\ dist_version = FooVersion THEN DistInfo
    ELSE "other.dist-info"

\* f"{dist_name}-{dist_version}.data"
DataName(dist_info_name) ==
    IF dist_info_name = DistInfo THEN "foo-1.0.data" ELSE "other.data"

\* WHEEL_SPECIFICATION_VERSION
WHEEL_SPECIFICATION_VERSION == <<WheelSpecMajor, 0>>

\* a > b for tuples of integers, as Python compares them
RECURSIVE TupleGreater(_, _)
TupleGreater(a, b) ==
    IF a = <<>> THEN FALSE
    ELSE IF b = <<>> THEN TRUE
    ELSE IF Head(a) # Head(b) THEN Head(a) > Head(b)
    ELSE TupleGreater(Tail(a), Tail(b))

\* validate_wheel_spec_version, lines 282-288: the version that passed the
\* checks is newer than the supported one
VersionNewer(parts) ==
    TupleGreater([i \in DOMAIN parts |-> IntValue(parts[i], 0)],
                 WHEEL_SPECIFICATION_VERSION)

\* whether validate_wheel_spec_version logs its warning
wheel_spec_version_warns(w) ==
    The({ /\ h.found
          /\ The({ CheckVersionParts(parts) = "" /\ VersionNewer(parts) :
                   parts \in {SplitDot(Strip(h.text), <<>>)} }) :
          h \in {WheelVersionHeader(w.files[WheelPath])} })

(***************************************************************************)
(* entry_points.txt as importlib.metadata reads it (Sectioned, Pair,       *)
(* EntryPoint.pattern) and the checks of validate_entry_points.            *)
(***************************************************************************)
EntryPointsPath == <<DistInfo, "entry_points.txt">>

\* "console_scripts", "gui_scripts"
ConsoleScripts ==
    <<99, 111, 110, 115, 111, 108, 101, 95, 115, 99, 114, 105, 112, 116, 115>>

GuiScripts == <<103, 117, 105, 95, 115, 99, 114, 105, 112, 116, 115>>

ErrEntryPointPair == "Pair.__new__() missing 1 required positional argument"

ErrEntryPointMatch == "'NoneType' object has no attribute 'group'"

ErrInvalidEntryPoint == "Invalid entry_points specification"

\* str.splitlines for "\n": the lines start at the first character and
\* after each "\n" that is not the last character
LineStarts(text) ==
    {i \in DOMAIN text : i = 1 \/ text[i - 1] = 10}

\* the line that starts at i, without its "\n"
LineAt(text, i) ==
    SubSeq(text, i,
           CHOOSE j \in (i - 1)..Len(text) :
               /\ \A k \in i..j : text[k] # 10
               /\ j = Len(text) \/ text[j + 1] = 10)

SplitLines(text) ==
    [ n \in 1..Cardinality(LineStarts(text)) |->
        LineAt(text, CHOOSE i \in LineStarts(text) :
                         Cardinality({k \in LineStarts(text) : k <= i}) = n) ]

\* str.strip("[]")
RECURSIVE StripBrackets(_)
StripBrackets(text) ==
    IF text # <<>> /\ Head(text) \in {91, 93} THEN StripBrackets(Tail(text))
    ELSE IF text # <<>> /\ text[Len(text)] \in {91, 93}
        THEN StripBrackets(Take(text, Len(text) - 1))
    ELSE text

\* Sectioned.section_pairs: the lines that are neither empty nor comments
\* nor section headers, each with the name of its section; the lines before
\* the first header are dropped.  section is <<>> or <<name>>.
RECURSIVE SectionPairs(_, _, _)
SectionPairs(lines, i, section) ==
    IF i > Len(lines) THEN <<>>
    ELSE IF lines[i] = <<>> \/ Head(lines[i]) = 35
        THEN SectionPairs(lines, i + 1, section)
    ELSE IF Head(lines[i]) = 91 /\ lines[i][Len(lines[i])] = 93
        THEN SectionPairs(lines, i + 1, <<StripBrackets(lines[i])>>)
    ELSE IF section = <<>> THEN SectionPairs(lines, i + 1, section)
    ELSE <<[group |-> section[1], line |-> lines[i]]>>
             \o SectionPairs(lines, i + 1, section)

\* [\w.] of EntryPoint.pattern, for ASCII
IsWord(c) ==
    \/ c >= 48 /\ c <= 57
    \/ c >= 65 /\ c <= 90
    \/ c >= 97 /\ c <= 122
    \/ c \in {95, 46}

\* the end of the run of [\w.] that starts at i
RECURSIVE WordEnd(_, _)
WordEnd(text, i) ==
    IF i <= Len(text) /\ IsWord(text[i]) THEN WordEnd(text, i + 1) ELSE i

\* the end of the run of blanks that starts at i
RECURSIVE BlankEnd(_, _)
BlankEnd(text, i) ==
    IF i <= Len(text) /\ text[i] = 32 THEN BlankEnd(text, i + 1) ELSE i

\* ((?P<extras>\[.*\])\s*)?$ at i
ExtrasMatch(text, i) ==
    \/ i > Len(text)
    \/ /\ text[i] = 91
       /\ \E q \in (i + 1)..Len(text) :
             /\ text[q] = 93
             /\ \A r \in (q + 1)..Len(text) : text[r] = 32

NoMatch == [matched |-> FALSE, module |-> <<>>, attr |-> <<>>]

\* (:\s*(?P<attr>[\w.]+)\s*)? and what follows, the module ending before m
\* and j being the first character that is not a blank after it
AttrMatch(text, m, j) ==
    IF j <= Len(text) /\ text[j] = 58
          /\ WordEnd(text, BlankEnd(text, j + 1)) > BlankEnd(text, j + 1)
    THEN The({ IF ExtrasMatch(text, BlankEnd(text, WordEnd(text, k)))
                  THEN [matched |-> TRUE, module |-> SubSeq(text, 1, m - 1),
                        attr |-> SubSeq(text, k, WordEnd(text, k) - 1)]
               ELSE NoMatch :
               k \in {BlankEnd(text, j + 1)} })
    ELSE IF ExtrasMatch(text, j)
        THEN [matched |-> TRUE, module |-> SubSeq(text, 1, m - 1), attr |-> <<>>]
    ELSE NoMatch

\* EntryPoint.pattern.match(value): attr is empty where the group is None
PatternMatch(value) ==
    The({ IF m = 1 THEN NoMatch ELSE AttrMatch(value, m, BlankEnd(value, m)) :
          m \in {WordEnd(value, 1)} })

\* Pair.parse and EntryPoint of one line: [err, group, name, value, module, attr]
EntryPointOf(pair) ==
    IF 61 \notin Range(pair.line)
        THEN [err |-> ErrEntryPointPair, group |-> pair.group, name |-> <<>>,
              value |-> <<>>, module |-> <<>>, attr |-> <<>>]
    ELSE The({ [err |-> IF ~match.matched THEN ErrEntryPointMatch ELSE "",
                group |-> pair.group, name |-> Strip(kv.head),
                value |-> Strip(kv.tail), module |-> match.module,
                attr |-> match.attr] :
               <<kv, match>> \in { <<x, PatternMatch(Strip(x.tail))>> :
                                      x \in {PartitionEq(pair.line, <<>>)} } })

\* distr.entry_points: the entry points of the file in its order
EntryPoints(data) ==
    The({ [i \in DOMAIN pairs |-> EntryPointOf(pairs[i])] :
          pairs \in { SectionPairs([i \in DOMAIN lines |-> Strip(lines[i])], 1, <<>>) :
                         lines \in {SplitLines(data)} } })

\* the entry points parse_entry_points yields for console_scripts and then
\* for gui_scripts
ScriptEntryPoints(eps) ==
    SelectSeq(eps, LAMBDA ep : ep.group = ConsoleScripts)
        \o SelectSeq(eps, LAMBDA ep : ep.group = GuiScripts)

\* the first entry point from i on that is refused
RECURSIVE CheckScripts(_, _)
CheckScripts(eps, i) ==
    IF i > Len(eps) THEN ""
    ELSE IF eps[i].err # "" THEN eps[i].err
    ELSE IF eps[i].module = <<>> \/ eps[i].attr = <<>> THEN ErrInvalidEntryPoint
    ELSE CheckScripts(eps, i + 1)

\* validate_entry_points: "" or the message of the exception.  A line that
\* is no pair fails the reading of the file, whatever its group.
CheckEntryPoints(eps) ==
    IF \E i \in DOMAIN eps : eps[i].err = ErrEntryPointPair THEN ErrEntryPointPair
    ELSE CheckScripts(ScriptEntryPoints(eps), 1)

validate_entry_points(w) ==
    The({CheckEntryPoints(eps) : eps \in {EntryPoints(w.files[EntryPointsPath])}})

(***************************************************************************)
(* The .data directory.                                                    *)
(***************************************************************************)
INSTALL_PATHS == {"purelib", "platlib", "headers", "scripts", "data"}

ErrDataNotDir == "Optional .data should be a directory"

ErrDataFiles == "Optional .data cannot contain files"

ErrDataKeys == "Optional .data contains unsupported scheme keys"

\* self.data.exists(): the name is a member or a directory of members
DataExists(w, data) == \E m \in memberlist(w) : m[1] = data

\* validate_data: "" or the message of the ValueError
validate_data(w, data) ==
    IF ~\E m \in memberlist(w) : Len(m) > 1 /\ m[1] = data THEN ErrDataNotDir
    ELSE IF \E m \in memberlist(w) : Len(m) = 2 /\ m[1] = data THEN ErrDataFiles
    ELSE IF {m[2] : m \in {x \in memberlist(w) : Len(x) > 2 /\ x[1] = data}}
                \ INSTALL_PATHS # {}
        THEN ErrDataKeys
    ELSE ""

(***************************************************************************)
(* Launchers: build_shebang, SCRIPT_TEMPLATE, generate_entrypoints_scripts *)
(* and install_wheel_data.                                                 *)
(***************************************************************************)
\* the longest interpreter path that goes into a "#!" line
ShebangLimit == 127

\* "#!python"
MAGIC_SHEBANG == <<35, 33, 112, 121, 116, 104, 111, 110>>

\* "#!"
DirectPrefix == <<35, 33>>

\* the two-stage wrapper before the path: #!/bin/sh, newline, the quoted exec
WrapperPrefix ==
    <<35, 33, 47, 98, 105, 110, 47, 115, 104, 10, 39, 39, 39, 101, 120, 101, 99, 39, 32>>

\* the two-stage wrapper after the path: "$0" "$@", newline, the closing quotes
WrapperSuffix ==
    <<32, 34, 36, 48, 34, 32, 34, 36, 64, 34, 10, 39, 32, 39, 39, 39>>

\* build_shebang: the direct form or the two-stage wrapper
build_shebang(exe) ==
    IF 32 \notin Range(exe) /\ Len(exe) <= ShebangLimit THEN DirectPrefix \o exe
    ELSE WrapperPrefix \o exe \o WrapperSuffix

\* the parts of SCRIPT_TEMPLATE around its fields
TemplateImport == <<10, 10, 105, 109, 112, 111, 114, 116, 32, 115, 121, 115, 10, 10, 102, 114, 111, 109, 32>>

TemplateName == <<32, 105, 109, 112, 111, 114, 116, 32>>

TemplateMain ==
    <<10, 10, 10, 105, 102, 32, 95, 95, 110, 97, 109, 101, 95, 95, 32, 61, 61, 32,
      34, 95, 95, 109, 97, 105, 110, 95, 95, 34, 58, 10, 32, 32, 32, 32, 115, 121,
      115, 46, 101, 120, 105, 116, 40>>

TemplateEnd == <<40, 41, 41, 10>>

\* SCRIPT_TEMPLATE.format(shebang, module, attr, main)
ScriptText(shebang, ep) ==
    shebang \o TemplateImport \o ep.module \o TemplateName
        \o Split(ep.attr, 46, <<>>)[1] \o TemplateMain \o ep.attr \o TemplateEnd

\* generate_entrypoints_scripts: the text of each launcher by its name, a
\* later entry point of a name overwriting an earlier one
generate_entrypoints_scripts(eps, exe) ==
    [ name \in {eps[i].name : i \in DOMAIN eps} |->
        The({ ScriptText(build_shebang(exe), eps[last]) :
              last \in { i \in DOMAIN eps :
                           /\ eps[i].name = name
                           /\ \A j \in DOMAIN eps : eps[j].name = name => j <= i } }) ]

\* what readline leaves of a file: the bytes after the first "\n"
RECURSIVE AfterFirstLine(_)
AfterFirstLine(bytes) ==
    IF bytes = <<>> THEN <<>>
    ELSE IF Head(bytes) = 10 THEN Tail(bytes)
    ELSE AfterFirstLine(Tail(bytes))

\* the file of the scripts key as install_wheel_data leaves it
RewriteScript(bytes, exe) ==
    IF IsPrefix(MAGIC_SHEBANG, bytes)
        THEN build_shebang(exe) \o <<10>> \o AfterFirstLine(bytes)
    ELSE bytes

\* install_wheel_data: the files below the destinations of the scheme keys,
\* each by its key and its path below the key's directory
install_wheel_data(w, data, exe) ==
    [ p \in {Drop(m, 1) : m \in {x \in DOMAIN w.files : Len(x) > 2 /\ x[1] = data}} |->
        IF p[1] = "scripts" /\ Len(p) = 2
            THEN RewriteScript(w.files[<<data>> \o p], exe)
        ELSE w.files[<<data>> \o p] ]

----
\* WheelFile.__init__, line 81: the file is opened as a zip archive
OpenZip ==
    /\ ipc = "open"
    /\ opened' = TRUE
    /\ ierror' = IF zip_file THEN "" ELSE ErrBadZipFile
    /\ ipc' = IF zip_file THEN "parse_name" ELSE "failed"
    /\ UNCHANGED <<hookVars, installInputs, dist_info, warned, destVars>>

\* WheelFile.__init__, lines 82-93
ParseName ==
    /\ ipc = "parse_name"
    /\ \E r \in {parse_name(wheel_name)} :
          /\ ierror' = r.err
          /\ ipc' = IF r.err = "" THEN "validate_dist_info" ELSE "failed"
          /\ dist_info' = IF r.err = "" THEN DistInfoName(r.dist_name, r.dist_version)
                          ELSE dist_info
    /\ UNCHANGED <<hookVars, installInputs, opened, warned, destVars>>

\* WheelFile.validate, first step
ValidateDistInfo ==
    /\ ipc = "validate_dist_info"
    /\ \E e \in {validate_dist_info(wheel, dist_info)} :
          /\ ierror' = e
          /\ ipc' = IF e = "" THEN "validate_wheel_spec_version" ELSE "failed"
    /\ UNCHANGED <<hookVars, installInputs, opened, dist_info, warned, destVars>>

ValidateWheelSpecVersion ==
    /\ ipc = "validate_wheel_spec_version"
    /\ \E e \in {validate_wheel_spec_version(wheel)} :
          /\ ierror' = e
          /\ ipc' = IF e = "" THEN "validate_record" ELSE "failed"
    /\ warned' = wheel_spec_version_warns(wheel)
    /\ UNCHANGED <<hookVars, installInputs, opened, dist_info, destVars>>

ValidateRecord ==
    /\ ipc = "validate_record"
    /\ \E e \in {validate_record(wheel)} :
          /\ ierror' = e
          /\ ipc' = IF e = "" THEN "validate_entry_points" ELSE "failed"
    /\ UNCHANGED <<hookVars, installInputs, opened, dist_info, warned, destVars>>

\* WheelFile.validate, lines 115-116
ValidateEntryPoints ==
    /\ ipc = "validate_entry_points"
    /\ \E e \in { IF EntryPointsPath \in memberlist(wheel)
                     THEN validate_entry_points(wheel) ELSE "" } :
          /\ ierror' = e
          /\ ipc' = IF e = "" THEN "validate_data" ELSE "failed"
    /\ UNCHANGED <<hookVars, installInputs, opened, dist_info, warned, destVars>>

\* ValidateData when install_wheel goes on to the extraction whatever the
\* check of the data directory says
MutValidateData ==
    /\ ipc = "validate_data"
    /\ \E e \in { IF DataExists(wheel, DataName(dist_info))
                     THEN validate_data(wheel, DataName(dist_info)) ELSE "" } :
          ierror' = e
    /\ ipc' = "extract"
    /\ UNCHANGED <<hookVars, installInputs, opened, dist_info, warned, destVars>>

\* WheelFile.validate, lines 118-119
ValidateData ==
    /\ ipc = "validate_data"
    /\ \E e \in { IF DataExists(wheel, DataName(dist_info))
                     THEN validate_data(wheel, DataName(dist_info)) ELSE "" } :
          /\ ierror' = e
          /\ ipc' = IF e = "" THEN "extract" ELSE "failed"
    /\ UNCHANGED <<hookVars, installInputs, opened, dist_info, warned, destVars>>

\* install_wheel, lines 532-539: the filtered members are extracted
Extract ==
    /\ ipc = "extract"
    /\ installed' = { ExtractPath(m) :
                        m \in filter_dist_info(dist_info, memberlist(wheel),
                                               strip_dist_info) }
    /\ ipc' = "generate_entrypoints_scripts"
    /\ UNCHANGED <<hookVars, installInputs, ierror, opened, dist_info, warned,
                   launchers, installer_file, data_files>>

\* install_wheel, lines 543-546 (the entry_points.txt of the installed tree
\* is the member the validation has read)
GenerateEntrypointsScripts ==
    /\ ipc = "generate_entrypoints_scripts"
    /\ launchers' =
          IF EntryPointsPath \in installed /\ EntryPointsPath \in DOMAIN wheel.files
          THEN The({ generate_entrypoints_scripts(eps, executable) :
                     eps \in {ScriptEntryPoints(EntryPoints(wheel.files[EntryPointsPath]))} })
          ELSE launchers
    /\ ipc' = "write_installer"
    /\ UNCHANGED <<hookVars, installInputs, ierror, opened, dist_info, warned,
                   installed, installer_file, data_files>>

\* install_wheel, lines 548-551
WriteInstaller ==
    /\ ipc = "write_installer"
    /\ installer_file' = IF installer.given THEN <<installer.text \o <<10>>>>
                         ELSE installer_file
    /\ ipc' = "install_wheel_data"
    /\ UNCHANGED <<hookVars, installInputs, ierror, opened, dist_info, warned,
                   installed, launchers, data_files>>

\* install_wheel, lines 553-557: the files of .data are copied to their
\* destinations and the directory is removed
InstallWheelData ==
    /\ ipc = "install_wheel_data"
    /\ \E data \in {DataName(dist_info)} :
          IF \E p \in installed : p[1] = data
          THEN /\ data_files' = install_wheel_data(wheel, data, executable)
               /\ installed' = {p \in installed : p[1] # data}
          ELSE UNCHANGED <<data_files, installed>>
    /\ ipc' = "installed"
    /\ UNCHANGED <<hookVars, installInputs, ierror, opened, dist_info, warned,
                   launchers, installer_file>>

InstallNext ==
    \/ OpenZip
    \/ ParseName
    \/ ValidateDistInfo
    \/ ValidateWheelSpecVersion
    \/ ValidateRecord
    \/ ValidateEntryPoints
    \/ ValidateData
    \/ Extract
    \/ GenerateEntrypointsScripts
    \/ WriteInstaller
    \/ InstallWheelData
----
\* the longest RECORD of the wheels whose rows are drawn freely
MaxRows == 4

\* "N:f", "W:1.0", "x=1", "{}"
MetadataBytes == <<78, 58, 102>>

WheelBytes == <<87, 58, 49, 46, 48>>

ModuleBytes == <<120, 61, 49>>

JwsBytes == <<123, 125>>

\* the members other than RECORD of a wheel as the builder makes it, with
\* or without a module and a detached signature
BaseFiles(hasModule, hasJws) ==
    (MetadataPath :> MetadataBytes) @@ (WheelPath :> WheelBytes)
    @@ (IF hasModule THEN ModulePath :> ModuleBytes ELSE <<>>)
    @@ (IF hasJws THEN JwsPath :> JwsBytes ELSE <<>>)

\* str(n) for n >= 0
RECURSIVE Decimal(_)
Decimal(n) == IF n < 10 THEN <<48 + n>> ELSE Append(Decimal(n \div 10), 48 + (n % 10))

\* str(len(data))
SizeText(data) == Decimal(Len(data))

HashInfo(name, data) == name \o <<61>> \o digest_for_record(Lower(name), data)

\* the row the builder writes for a path: RECORD's own has no hash
Row(files, path) ==
    IF path = RecordPath THEN <<path, <<>>, <<>>>>
    ELSE IF path \in DOMAIN files
        THEN <<path, HashInfo(Sha256Name, files[path]), SizeText(files[path])>>
    ELSE <<path, HashInfo(Sha256Name, <<>>), SizeText(<<>>)>>

RowPaths == {MetadataPath, WheelPath, RecordPath, ModulePath, JwsPath, StrayPath}

\* the RECORD the builder writes
BaseRecord(files) ==
    (IF ModulePath \in DOMAIN files THEN <<Row(files, ModulePath)>> ELSE <<>>)
    \o <<Row(files, MetadataPath), Row(files, WheelPath), Row(files, RecordPath)>>

\* the wheel whose RECORD has the rows the builder writes for paths
RowWheel(files, paths) ==
    [files |-> files, has_record |-> TRUE,
     record |-> [i \in DOMAIN paths |-> Row(files, paths[i])]]

\* what a row may have for its hash field, data being the member's bytes
HashInfos(data) ==
    { <<>>,
      Sha256Name \o <<61>>,
      <<61>> \o digest_for_record(Sha256Name, data),
      Sha256Name,
      HashInfo(Sha256Upper, data),
      HashInfo(Md5Name, data),
      HashInfo(Sha1Name, data),
      HashInfo(Md5Upper, data),
      HashInfo(Sha1Mixed, data),
      UnknownName \o <<61>> \o digest_for_record(Sha256Name, data),
      HashInfo(Sha256Name, data) \o <<61, 61>>,
      Sha256Name \o <<61>> \o digest_for_record(Sha256Name, data \o <<48>>),
      Sha256Name \o <<61>> \o Take(digest_for_record(Sha256Name, data), 5) }

\* the built wheel with the hash field of one row replaced, or with a row
\* of two or of four fields
HashWheels ==
    LET files == BaseFiles(TRUE, FALSE)
        rows == BaseRecord(files)
    IN  { [files |-> files, has_record |-> TRUE,
           record |-> [rows EXCEPT ![i] = <<rows[i][1], h, rows[i][3]>>]] :
            <<i, h>> \in UNION {{<<k, x>> : x \in HashInfos(files[rows[k][1]])} : k \in 1..3} }
        \cup { [files |-> files, has_record |-> TRUE,
                record |-> [rows EXCEPT ![4] = <<rows[4][1], h, rows[4][3]>>]] :
                 h \in {Sha256Name \o <<61, 65>>, Md5Name \o <<61, 65>>} }
        \cup { [files |-> files, has_record |-> TRUE,
                record |-> [rows EXCEPT ![i] = r]] :
                 <<i, r>> \in (1..4) \X {<<ModulePath, <<>>>>,
                                         <<ModulePath, <<>>, <<>>, <<>>>>} }

\* wheels that lack a mandatory member
PartWheels ==
    { [files |-> <<>>, has_record |-> FALSE, record |-> <<>>],
      [files |-> ModulePath :> ModuleBytes, has_record |-> FALSE, record |-> <<>>],
      [files |-> WheelPath :> WheelBytes, has_record |-> TRUE,
       record |-> <<Row(<<>>, RecordPath)>>],
      [files |-> MetadataPath :> MetadataBytes, has_record |-> TRUE,
       record |-> <<Row(<<>>, RecordPath)>>],
      [files |-> BaseFiles(TRUE, FALSE), has_record |-> FALSE, record |-> <<>>] }

\* the bytes a byte of a member is changed to
TamperBytes == {48, 50, 120}

\* the built wheels: every member has its row; the signature has one or not
BuiltWheels ==
    { [files |-> BaseFiles(TRUE, j), has_record |-> TRUE,
       record |-> BaseRecord(BaseFiles(TRUE, j))
                  \o (IF j /\ r THEN <<Row(BaseFiles(TRUE, j), JwsPath)>> ELSE <<>>)] :
        <<j, r>> \in BOOLEAN \X BOOLEAN }

\* one byte of one member changed, or the size field of one row of RECORD
Tampers(w) ==
    { [kind |-> "byte", path |-> p, pos |-> i, byte |-> b] :
        <<p, i, b>> \in { x \in (DOMAIN w.files) \X (1..5) \X TamperBytes :
                            x[2] <= Len(w.files[x[1]]) /\ w.files[x[1]][x[2]] # x[3] } }
    \cup { [kind |-> "size", path |-> RecordPath, pos |-> i, byte |-> 57] :
             i \in 1..Len(w.record) }

Tampered(w, t) ==
    IF t.kind = "byte"
        THEN [w EXCEPT !.files[t.path][t.pos] = t.byte]
    ELSE IF t.kind = "size"
        THEN [w EXCEPT !.record[t.pos][3] = <<t.byte>>]
    ELSE w

\* "foo-1.0-py3-none-any.whl"
GoodWheelName ==
    <<102, 111, 111, 45, 49, 46, 48, 45, 112, 121, 51, 45, 110, 111, 110, 101, 45, 97, 110, 121, 46, 119, 104, 108>>

\* the file names: two of foo 1.0, names that lack a segment, have an empty
\* name or version, another suffix or too many segments, one of another
\* distribution
WheelNames ==
    { <<102, 111, 111, 45, 49, 46, 48, 45, 112, 121, 51, 45, 110, 111, 110, 101, 45, 97, 110, 121, 46, 119, 104, 108>>,
      <<102, 111, 111, 45, 49, 46, 48, 45, 49, 45, 112, 121, 51, 45, 110, 111, 110, 101, 45, 97, 110, 121, 46, 119, 104, 108>>,
      <<102, 111, 111, 45, 112, 121, 51, 45, 110, 111, 110, 101, 45, 97, 110, 121, 46, 119, 104, 108>>,
      <<45, 49, 46, 48, 45, 112, 121, 51, 45, 110, 111, 110, 101, 45, 97, 110, 121, 46, 119, 104, 108>>,
      <<102, 111, 111, 45, 45, 112, 121, 51, 45, 110, 111, 110, 101, 45, 97, 110, 121, 46, 119, 104, 108>>,
      <<102, 111, 111, 45, 49, 46, 48, 45, 112, 121, 51, 45, 110, 111, 110, 101, 45, 97, 110, 121, 46, 122, 105, 112>>,
      <<102, 111, 111, 45, 49, 46, 48, 45, 49, 45, 50, 45, 112, 121, 51, 45, 110, 111, 110, 101, 45, 97, 110, 121, 46, 119, 104, 108>>,
      <<98, 97, 114, 45, 49, 46, 48, 45, 112, 121, 51, 45, 110, 111, 110, 101, 45, 97, 110, 121, 46, 119, 104, 108>>,
      <<102, 111, 111, 45, 49, 46, 48, 45, 112, 121, 51, 45, 110, 111, 110, 101, 45, 97, 110, 121>>,
      <<46, 119, 104, 108>> }

\* str.join("-")
RECURSIVE JoinDash(_)
JoinDash(segments) ==
    IF Len(segments) = 0 THEN <<>>
    ELSE IF Len(segments) = 1 THEN segments[1]
    ELSE segments[1] \o <<45>> \o JoinDash(Tail(segments))

\* the file name made of a name, a version, the other segments and a suffix
FormatName(f) == JoinDash(<<f.name, f.version>> \o f.rest) \o f.suffix

\* "", "foo", "f.o_o"; "", "1.0", "2"; ".whl", ".zip", ".WHL", ""
NameSegments == {<<>>, FooName, <<102, 46, 111, 95, 111>>}

VersionSegments == {<<>>, FooVersion, <<50>>}

Suffixes == {WhlSuffix, <<46, 122, 105, 112>>, <<46, 87, 72, 76>>, <<>>}

\* the segments after the version: from none to the three tags "py3",
\* "none", "any" with a build tag "1" or an empty one before them, and one
\* segment too many
RestSegments ==
    { <<>>,
      << <<112, 121, 51>> >>,
      << <<112, 121, 51>>, <<110, 111, 110, 101>> >>,
      << <<112, 121, 51>>, <<110, 111, 110, 101>>, <<97, 110, 121>> >>,
      << <<49>>, <<112, 121, 51>>, <<110, 111, 110, 101>>, <<97, 110, 121>> >>,
      << <<>>, <<112, 121, 51>>, <<110, 111, 110, 101>>, <<97, 110, 121>> >>,
      << <<49>>, <<112, 121, 51>>, <<110, 111, 110, 101>>, <<97, 110, 121>>, <<120>> >> }

NameFields ==
    [name : NameSegments, version : VersionSegments, rest : RestSegments,
     suffix : Suffixes]

NoInstaller == [given |-> FALSE, text |-> <<>>]

\* installer="me", installer=""
Installers ==
    {NoInstaller, [given |-> TRUE, text |-> <<109, 101>>], [given |-> TRUE, text |-> <<>>]}

\* "/usr/bin/python3"
ShortExecutable ==
    <<47, 117, 115, 114, 47, 98, 105, 110, 47, 112, 121, 116, 104, 111, 110, 51>>

\* a path of n characters, "/ppp..."
LongPath(n) == [i \in 1..n |-> IF i = 1 THEN 47 ELSE 112]

\* the interpreter paths: short ones without and with a blank or a tab, and
\* paths around the limit of the "#!" line
Executables ==
    { ShortExecutable,
      <<47, 111, 112, 116, 47, 109, 121, 32, 112, 121, 47, 112, 121, 116, 104, 111, 110>>,
      <<47, 111, 112, 116, 47, 109, 121, 9, 112, 121, 47, 112, 121, 116, 104, 111, 110>>,
      LongPath(ShebangLimit - 1), LongPath(ShebangLimit), LongPath(ShebangLimit + 1),
      [LongPath(ShebangLimit) EXCEPT ![5] = 32],
      [LongPath(ShebangLimit + 1) EXCEPT ![5] = 32] }

\* what entry_points.txt holds in the wheels of the model
EntryPointsTexts ==
    { <<91, 99, 111, 110, 115, 111, 108, 101, 95, 115, 99, 114, 105, 112, 116, 115, 93, 10, 98, 97, 114, 32, 61, 32, 112, 107, 103, 58, 109, 97, 105, 110, 10>>,
      <<91, 99, 111, 110, 115, 111, 108, 101, 95, 115, 99, 114, 105, 112, 116, 115, 93, 10, 98, 97, 114, 32, 61, 32, 112, 107, 103, 10>>,
      <<91, 99, 111, 110, 115, 111, 108, 101, 95, 115, 99, 114, 105, 112, 116, 115, 93, 10, 98, 97, 114, 32, 61, 32, 58, 109, 97, 105, 110, 10>>,
      <<91, 99, 111, 110, 115, 111, 108, 101, 95, 115, 99, 114, 105, 112, 116, 115, 93, 10, 98, 97, 114, 10>>,
      <<91, 111, 116, 104, 101, 114, 93, 10, 98, 97, 114, 32, 61, 32, 112, 107, 103, 10>>,
      <<91, 111, 116, 104, 101, 114, 93, 10, 98, 97, 114, 10>>,
      <<98, 97, 114, 32, 61, 32, 112, 107, 103, 10, 91, 103, 117, 105, 95, 115, 99, 114, 105, 112, 116, 115, 93, 10, 103, 32, 61, 32, 97, 46, 98, 58, 99, 46, 100, 10>>,
      <<91, 99, 111, 110, 115, 111, 108, 101, 95, 115, 99, 114, 105, 112, 116, 115, 93, 10, 98, 97, 114, 32, 61, 32, 112, 107, 103, 58, 109, 97, 105, 110, 32, 91, 120, 93, 10>>,
      <<91, 99, 111, 110, 115, 111, 108, 101, 95, 115, 99, 114, 105, 112, 116, 115, 93, 10, 98, 97, 114, 32, 61, 32, 112, 58, 97, 10, 91, 103, 117, 105, 95, 115, 99, 114, 105, 112, 116, 115, 93, 10, 98, 97, 114, 32, 61, 32, 113, 58, 98, 10>>,
      <<35, 32, 110, 111, 110, 101, 10>> }

\* what WHEEL holds: "W:" stands for "Wheel-Version:"
WheelTexts ==
    { <<87, 58, 50, 46, 48>>,
      <<87, 58, 49, 46, 49>>,
      <<87, 58, 49, 46, 48, 46, 49>>,
      <<87, 58, 49>>,
      <<87, 58, 48, 46, 57>>,
      <<87, 58, 49, 46, 48, 46, 48>>,
      <<87, 58, 49, 46, 120>>,
      <<87, 58>>,
      <<71, 58, 120>>,
      <<87, 58, 48, 49, 46, 48, 48>>,
      <<87, 58, 48, 46, 50, 48, 48, 48>>,
      <<87, 58, 49, 46, 46, 48>>,
      <<87, 58, 32, 49, 46, 48, 32>>,
      <<87, 58, 50>>,
      <<87, 58, 49, 46, 48, 46, 48, 46, 48>>,
      <<87, 58, 48, 46, 48, 46, 53>>,
      <<87, 58, 49, 48, 46, 48>> }

\* "#!python\nprint(1)\n", "#!/bin/sh\n"
MagicScript ==
    <<35, 33, 112, 121, 116, 104, 111, 110, 10, 112, 114, 105, 110, 116, 40, 49, 41, 10>>

PlainScript == <<35, 33, 47, 98, 105, 110, 47, 115, 104, 10>>

\* the members a wheel of foo 1.0 may have in its .data directory
DataMembers ==
    { <<"foo-1.0.data", "scripts", "tool">> :> MagicScript,
      <<"foo-1.0.data", "scripts", "tool">> :> PlainScript,
      (<<"foo-1.0.data", "scripts", "sub", "tool">> :> MagicScript)
          @@ (<<"foo-1.0.data", "data", "share", "x">> :> ModuleBytes),
      <<"foo-1.0.data", "purelib", "tool">> :> MagicScript,
      <<"foo-1.0.data", "loose">> :> ModuleBytes,
      <<"foo-1.0.data", "bogus", "x">> :> ModuleBytes,
      (<<"foo-1.0.data", "bogus", "x">> :> ModuleBytes)
          @@ (<<"foo-1.0.data", "loose">> :> ModuleBytes),
      <<"foo-1.0.data">> :> ModuleBytes }

\* members of dist-info beside the mandatory ones, and members whose names
\* lead into dist-info through "." or ".."
OddMembers ==
    { <<DistInfo, "LICENSE">> :> ModuleBytes,
      <<DistInfo, "sub", "RECORD">> :> ModuleBytes,
      <<"pkg", DistInfo, "WHEEL">> :> ModuleBytes,
      <<".", DistInfo, "RECORD">> :> ModuleBytes,
      <<".", DistInfo, "WHEEL">> :> ModuleBytes,
      <<"..", DistInfo, "RECORD">> :> ModuleBytes,
      <<"..", DistInfo, "LICENSE">> :> ModuleBytes }

\* the elements of a set of paths in some order
RECURSIVE SomeOrder(_)
SomeOrder(S) ==
    IF S = {} THEN <<>>
    ELSE The({<<x>> \o SomeOrder(S \ {x}) : x \in {CHOOSE y \in S : TRUE}})

\* the wheel of these members with the RECORD the builder writes for them
RecordedWheel(files) ==
    The({ [files |-> files, has_record |-> TRUE,
           record |-> [i \in DOMAIN paths |-> Row(files, paths[i])]] :
          paths \in {SomeOrder(DOMAIN files) \o <<RecordPath>>} })

\* wheels that differ from the plain one in entry_points.txt, in WHEEL, in
\* the .data directory or in an odd member, and some that differ in two
ShapeWheels ==
    { RecordedWheel(BaseFiles(TRUE, FALSE) @@ (EntryPointsPath :> t)) : t \in EntryPointsTexts }
    \cup { RecordedWheel((WheelPath :> t) @@ BaseFiles(TRUE, FALSE)) : t \in WheelTexts }
    \cup { RecordedWheel(BaseFiles(TRUE, FALSE) @@ d) : d \in DataMembers \cup OddMembers }
    \cup { RecordedWheel(BaseFiles(TRUE, FALSE) @@ (EntryPointsPath :> t) @@ d) :
             <<t, d>> \in EntryPointsTexts \X DataMembers }
    \cup { RecordedWheel((WheelPath :> <<87, 58, 49, 46, 49>>) @@ BaseFiles(FALSE, TRUE)
                         @@ (EntryPointsPath :> t) @@ d) :
             <<t, d>> \in EntryPointsTexts \X OddMembers }

\* call_hook is not running
PipelineIdle ==
    /\ fs = BaseFS
    /\ pyproject = NoTable("absent")
    /\ hook = "build_wheel"
    /\ backendHooks = {}
    /\ hookBehaviour = Exits
    /\ verbose = FALSE
    /\ InitRun
    /\ DirectCall

\* nothing has been written below the destination
InitDest ==
    /\ ipc = "open"
    /\ ierror = ""
    /\ opened = FALSE
    /\ dist_info = ""
    /\ warned = FALSE
    /\ installed = {}
    /\ launchers = <<>>
    /\ installer_file = <<>>
    /\ data_files = <<>>

\* the plain call: the wheel's own file name, no installer
PlainCall ==
    /\ wheel_name = GoodWheelName
    /\ zip_file = TRUE
    /\ installer = NoInstaller
    /\ executable = ShortExecutable

InitInstall ==
    /\ PipelineIdle
    /\ BackendIdle
    /\ ToolsIdle
    /\ strip_dist_info \in BOOLEAN
    /\ \/ /\ wheel \in HashWheels \cup PartWheels
          /\ tamper = NoTamper
          /\ PlainCall
       \/ /\ \E m, j \in BOOLEAN : \E n \in 0..MaxRows : \E paths \in [1..n -> RowPaths] :
                wheel = RowWheel(BaseFiles(m, j), paths)
          /\ tamper = NoTamper
          /\ PlainCall
       \/ /\ \E w \in BuiltWheels :
                /\ tamper \in Tampers(w)
                /\ wheel = Tampered(w, tamper)
          /\ PlainCall
       \/ /\ wheel \in ShapeWheels
          /\ tamper = NoTamper
          /\ wheel_name = GoodWheelName
          /\ zip_file = TRUE
          /\ installer \in Installers
          /\ executable \in {ShortExecutable, LongPath(ShebangLimit + 1)}
       \/ /\ wheel \in {RecordedWheel(BaseFiles(TRUE, FALSE)), NoWheel}
          /\ tamper = NoTamper
          /\ wheel_name \in WheelNames
          /\ zip_file = (wheel # NoWheel)
          /\ installer \in Installers
          /\ executable = ShortExecutable
       \/ /\ wheel = RecordedWheel(BaseFiles(TRUE, FALSE))
          /\ tamper = NoTamper
          /\ wheel_name \in {FormatName(f) : f \in NameFields}
          /\ zip_file = TRUE
          /\ installer = NoInstaller
          /\ executable = ShortExecutable
       \/ /\ wheel \in { RecordedWheel(BaseFiles(TRUE, FALSE) @@ (EntryPointsPath :> t) @@ d) :
                            <<t, d>> \in EntryPointsTexts \X DataMembers }
          /\ tamper = NoTamper
          /\ wheel_name = GoodWheelName
          /\ zip_file = TRUE
          /\ installer = NoInstaller
          /\ executable \in Executables
    /\ InitDest

SpecInstall == InitInstall /\ [][InstallNext]_vars

(***************************************************************************)
(* Claims about RECORD.                                                    *)
(***************************************************************************)
\* every row has three fields, and the rows of members carry the hash the
\* builder writes: nothing but the set of rows can make validate_record fail
GoodRows ==
    /\ tamper = NoTamper
    /\ \A i \in DOMAIN wheel.record :
          /\ Len(wheel.record[i]) = 3
          /\ wheel.record[i][1] \in DOMAIN wheel.files =>
                wheel.record[i][2]
                    = HashInfo(Sha256Name, wheel.files[wheel.record[i][1]])

\* where install_wheel is once validate_record has passed
AfterRecord ==
    {"validate_entry_points", "validate_data", "extract",
     "generate_entrypoints_scripts", "write_installer", "install_wheel_data",
     "installed"}

\* the errors of the checks that follow validate_record
LaterErrors ==
    {ErrEntryPointPair, ErrEntryPointMatch, ErrInvalidEntryPoint,
     ErrDataNotDir, ErrDataFiles, ErrDataKeys}

RecordPassed == ipc \in AfterRecord \/ (ipc = "failed" /\ ierror \in LaterErrors)

\* validate_record has run
RecordChecked ==
    \/ RecordPassed
    \/ ipc = "failed" /\ ierror \notin {ErrBadZipFile, ErrInvalidName,
                                        ErrMissingDistInfo, ErrMissingMetadata,
                                        ErrMissingWheel, ErrMissingRecord,
                                        ErrMissingVersion, ErrInvalidVersion,
                                        ErrIncompatibleVersion}

\* the number of rows of RECORD that name path
RowCount(path) ==
    Cardinality({i \in DOMAIN wheel.record : wheel.record[i][1] = path})

RowsNameMembers ==
    \A i \in DOMAIN wheel.record : wheel.record[i][1] \in memberlist(wheel)

\* C9 as stated: RECORD consistency passes exactly when every member other
\* than RECORD itself and the two signature files has exactly one row and
\* every row names a member, RECORD's own row not being required.
C9_RecordOwnRowNotRequired ==
    (GoodRows /\ RecordChecked) =>
        (RecordPassed <=>
            /\ RowsNameMembers
            /\ \A m \in memberlist(wheel) \ ({RecordPath} \cup UNRECORDED_FILES) :
                  RowCount(m) = 1)

\* C9, amended: RECORD consistency passes exactly when every row names a
\* member, no path has two rows, and every member other than the two
\* signature files, RECORD itself included, has a row.  Then a member
\* without a row (in a RECORD that is not empty), a row that names no member
\* and a path with two rows are rejected each with its own error.
C9_RecordConsistency ==
    (GoodRows /\ RecordChecked) =>
        /\ RecordPassed <=>
              /\ RowsNameMembers
              /\ \A m \in memberlist(wheel) : RowCount(m) <= 1
              /\ \A m \in memberlist(wheel) \ UNRECORDED_FILES : RowCount(m) = 1
        /\ ~RecordPassed =>
              ierror \in {ErrExtraPackaged, ErrNotPackaged, ErrMultiple, ErrEmptyRecord}
        /\ ierror = ErrExtraPackaged <=>
              /\ wheel.record # <<>>
              /\ RowsNameMembers
              /\ \A m \in memberlist(wheel) : RowCount(m) <= 1
              /\ \E m \in memberlist(wheel) \ UNRECORDED_FILES : RowCount(m) = 0
        /\ ierror = ErrNotPackaged => ~RowsNameMembers
        /\ (~RowsNameMembers /\ \A m \in memberlist(wheel) : RowCount(m) <= 1)
              => ierror = ErrNotPackaged
        /\ ierror = ErrMultiple => \E m \in memberlist(wheel) : RowCount(m) > 1
        /\ (RowsNameMembers /\ \E m \in memberlist(wheel) : RowCount(m) > 1)
              => ierror = ErrMultiple
        /\ ierror = ErrEmptyRecord <=> wheel.record = <<>>

\* a RECORD that lacks nothing but its own row has been rejected
C9_Witness ==
    /\ GoodRows
    /\ ipc = "failed"
    /\ ierror = ErrExtraPackaged
    /\ RowCount(RecordPath) = 0
    /\ RowsNameMembers
    /\ \A m \in memberlist(wheel) \ {RecordPath} : RowCount(m) = 1

\* the row's hash field has an algorithm and a digest, and the digest is the
\* unpadded urlsafe base64 of the digest of the member's bytes
RowHashCorrect(row) ==
    /\ PartitionEq(row[2], <<>>).head # <<>>
    /\ PartitionEq(row[2], <<>>).tail # <<>>
    /\ row[1] \in DOMAIN wheel.files
    /\ PartitionEq(row[2], <<>>).tail
          = RStripEq(B64Encode(Digest(Lower(PartitionEq(row[2], <<>>).head),
                                      wheel.files[row[1]])))

\* a byte of a member that has a hashed row was changed after the build
RecordedMemberChanged ==
    /\ tamper.kind = "byte"
    /\ RowCount(tamper.path) = 1

VersionErrors == {ErrMissingVersion, ErrInvalidVersion, ErrIncompatibleVersion}

FirstViolation(w, dist_info_name) ==
    IF validate_dist_info(w, dist_info_name) # ""
        THEN validate_dist_info(w, dist_info_name)
    ELSE IF validate_wheel_spec_version(w) # ""
        THEN validate_wheel_spec_version(w)
    ELSE IF validate_record(w) # ""
        THEN validate_record(w)
    ELSE IF EntryPointsPath \in memberlist(w) /\ validate_entry_points(w) # ""
        THEN validate_entry_points(w)
    ELSE IF DataExists(w, DataName(dist_info_name))
        THEN validate_data(w, DataName(dist_info_name))
    ELSE ""

\* nothing has been written below the destination directory
NothingWritten ==
    /\ installed = {}
    /\ launchers = <<>>
    /\ installer_file = <<>>
    /\ data_files = <<>>

\* the wheel has been opened and named, so that WheelFile.validate has run
\* or is running
Validating == dist_info # ""

\* C11: the validation checks the dist-info directory, the specification
\* version, RECORD, the entry points and the data directory in this order and
\* stops at the first violation (the error raised is the error of the first
\* check that the wheel fails); when any check fails no member has been
\* extracted and no launcher, data file or INSTALLER has been written, and
\* whatever is written is written for a wheel that passes every check
C11_ValidationBeforeInstall ==
    /\ ipc = "failed" => NothingWritten
    /\ ipc = "failed" /\ Validating => ierror = FirstViolation(wheel, dist_info)
    /\ ~NothingWritten => Validating /\ FirstViolation(wheel, dist_info) = ""

\* a wheel whose entry points and data directory are both invalid has failed
\* on its entry points, and nothing is written
C11_Witness ==
    /\ ipc = "failed"
    /\ ierror \in {ErrEntryPointPair, ErrEntryPointMatch, ErrInvalidEntryPoint}
    /\ DataExists(wheel, DataName(dist_info))
    /\ validate_data(wheel, DataName(dist_info)) # ""
    /\ NothingWritten

\* C12: a wheel file whose name deviates from the filename grammar is
\* rejected before the archive is opened: for such a name the file is never
\* opened as a zip archive, whatever its contents
C12_BadNameNeverOpened ==
    parse_name(wheel_name).err # "" => ~opened

\* the numbers of a version, with zeros for the numbers it leaves out
PadTo(nums, n) == [i \in 1..n |-> IF i <= Len(nums) THEN nums[i] ELSE 0]

\* the version a is greater than the version b: 1.0.0 is 1.0
GreaterVersion(a, b) ==
    \E n \in {IF Len(a) > Len(b) THEN Len(a) ELSE Len(b)} :
        TupleGreater(PadTo(a, n), PadTo(b, n))

\* validate_wheel_spec_version has run on the wheel
VersionChecked ==
    \/ ipc \in {"validate_record"} \cup AfterRecord
    \/ ipc = "failed" /\ ierror \in VersionErrors \cup LaterErrors
    \/ ipc = "failed" /\ RecordChecked /\ Validating

\* the run has failed in validate_wheel_spec_version
VersionFailed == ipc = "failed" /\ ierror \in VersionErrors

\* C13: with the supported version 1.0, a Wheel-Version with a major number
\* greater than 1 makes the install fail; one with major 1 and a greater
\* minor or patch number passes with a warning; one equal to or lower than
\* 1.0 passes without a warning; a missing or non-numeric Wheel-Version makes
\* the install fail
C13_WheelVersionOutcome ==
    VersionChecked =>
        \E h \in {WheelVersionHeader(wheel.files[WheelPath])} :
        \E parts \in {SplitDot(Strip(h.text), <<>>)} :
            IF ~h.found \/ \E i \in DOMAIN parts : ~IsInt(parts[i])
                THEN VersionFailed
            ELSE \E nums \in {[i \in DOMAIN parts |-> IntValue(parts[i], 0)]} :
                IF nums[1] > WheelSpecMajor THEN VersionFailed
                ELSE /\ ~VersionFailed
                     /\ warned = GreaterVersion(nums, WHEEL_SPECIFICATION_VERSION)

\* the members the installation keeps: those outside the dist-info directory
\* and, of the dist-info directory, METADATA and entry_points.txt when the
\* directory is stripped and all but RECORD when it is not
KeptMembers ==
    { m \in memberlist(wheel) :
        \/ m[1] # dist_info
        \/ IF strip_dist_info THEN m \in {MetadataPath, EntryPointsPath}
           ELSE m # RecordPath }

\* C14: for every valid wheel and both values of strip_dist_info the files
\* extracted are the members outside the dist-info directory, unchanged,
\* and of the dist-info directory only METADATA and entry_points.txt when
\* strip_dist_info is true or every member except RECORD when it is false;
\* RECORD is never installed
C14_ExtractedMembers ==
    ipc = "generate_entrypoints_scripts" =>
        /\ installed = KeptMembers
        /\ RecordPath \notin installed

\* the whitespace characters of a path: tab, newline, vertical tab, form
\* feed, carriage return, blank
PathWhitespace == {9, 10, 11, 12, 13, 32}

\* C20: the first line of a generated launcher is the direct form, "#!"
\* followed by the path of the interpreter, exactly when the path has no
\* whitespace character and at most 127 characters; in every other case the
\* launcher starts with the two-stage /bin/sh wrapper that re-execs the
\* interpreter
C20_DirectShebangForPlainPath ==
    \A name \in DOMAIN launchers :
        IF Range(executable) \cap PathWhitespace = {} /\ Len(executable) <= ShebangLimit
            THEN IsPrefix(DirectPrefix \o executable \o <<10>>, launchers[name])
        ELSE IsPrefix(WrapperPrefix \o executable \o WrapperSuffix, launchers[name])

(***************************************************************************)
(* Claims about the output of the child, the hooks and the tracker file.   *)
(***************************************************************************)
\* p occurs in s
IsInfix(p, s) ==
    \E i \in 0..(Len(s) - Len(p)) : SubSeq(s, i + 1, i + Len(p)) = p

\* the child has exited with a status that is not 0
ChildFailed == cpc = "exited" /\ cstatus # 0

\* C16: if the child exits with a non-zero status, call_hook raises an error
\* and returns no result; the text of the error contains the captured
\* standard output and standard error of the child exactly when verbose is
\* false, and no captured output when verbose is true
C16_CapturedOutputInError ==
    ChildFailed =>
        /\ pc # "returned"
        /\ result = NoResult
        /\ pc \in {"finally", "raised"} =>
              /\ error.type = "RuntimeError"
              /\ error.msg = "hook failed"
              /\ IF verbose THEN error.data = <<>>
                 ELSE /\ IsInfix(CapturedStdout \o DecodeReplace(cstdout), error.data)
                      /\ IsInfix(CapturedStderr \o DecodeReplace(cstderr), error.data)

\* a hook has printed and raised, and call_hook has raised with the captured
\* output, the byte that is not UTF-8 replaced
C16_Witness ==
    /\ pc = "raised"
    /\ ChildFailed
    /\ ~verbose
    /\ cexc = HookError
    /\ IsInfix(<<104, 65533, 10>>, error.data)
    /\ IsInfix(Traceback(HookError), error.data)

\* the helper has looked the hook up on the backend object
LookedUp == "imported" \in Range(events) /\ cpc # "getattr"

\* the hook is one of the optional hooks
OptionalHook == SUPPORTED_HOOKS[cargs.hook] # "none"

\* C17: the helper produces the fallback, an empty list, without calling a
\* hook if and only if the hook is optional and the backend object lacks it;
\* a mandatory hook that the backend lacks makes the helper fail with the
\* error of a missing mandatory hook; a hook the backend has is called with
\* the arguments given and what it returns or raises is what the helper
\* produces
C17_HookFallback ==
    /\ "fallback" \in Range(events) <=>
          (LookedUp /\ OptionalHook /\ cargs.hook \notin backendHooks)
    /\ "fallback" \in Range(events) =>
          /\ "called" \notin Range(events)
          /\ ccall = NoResult
          /\ cresult = Utf8Encode(Dumps(HookResult(JList(<<>>))))
          /\ cexc = NoError
    /\ (LookedUp /\ ~OptionalHook /\ cargs.hook \notin backendHooks) =>
          /\ "called" \notin Range(events)
          /\ ccall = NoResult
          /\ cpc = "exited" /\ cstatus # 0
          /\ cexc = MissingHookError
          /\ csent = 0
    /\ (LookedUp /\ cargs.hook \in backendHooks /\ cpc # "hook") =>
          /\ "called" \in Range(events)
          /\ ccall = HookArgs
          /\ hookBehaviour.kind = "return" =>
                /\ cresult = Utf8Encode(Dumps(HookResult(hookBehaviour.val)))
                /\ cexc = NoError
          /\ hookBehaviour.kind = "raise" =>
                /\ cpc = "exited" /\ cstatus # 0
                /\ cexc = HookError
                /\ csent = 0

\* the fallback of get_requires_for_build_sdist has been returned by
\* call_hook of the front-end
C17_Witness ==
    /\ pc = "returned"
    /\ hook = "get_requires_for_build_sdist"
    /\ backendHooks = {}
    /\ "fallback" \in Range(events)
    /\ result = HookResult(JList(<<>>))

\* the calls of build_wheel that have succeeded, by their place in the list
\* of the calls made
WheelsBuilt == {i \in DOMAIN built : built[i].command = "build_wheel" /\ built[i].ok}

\* the tracker file after the calls made: none before the first successful
\* build_wheel, then the filename the most recent one returned and a newline
TrackerOfBuilt ==
    IF WheelsBuilt = {} THEN NoTracker
    ELSE [exists |-> TRUE,
          text |-> built[CHOOSE i \in WheelsBuilt : \A j \in WheelsBuilt : j <= i]
                       .filename.s \o <<10>>]

\* a step that creates or changes the tracker file is the step of a
\* build_wheel whose hook has been called and has returned a filename, which
\* call_hook has returned, and it writes that filename and a newline
TrackerWritten ==
    tracker' # tracker =>
        /\ command = "build_wheel"
        /\ pc = "returned"
        /\ "called" \in Range(events)
        /\ cpc = "exited" /\ cstatus = 0
        /\ hookBehaviour.kind = "return"
        /\ tracker' = [exists |-> TRUE, text |-> hookBehaviour.val.s \o <<10>>]

\* C15: after any sequence of build_wheel and build_sdist calls into one
\* output directory the tracker file, if present, holds the filename
\* returned by the most recent successful build_wheel followed by a newline;
\* it is written only after the hook has returned successfully, and a
\* build_sdist call or a failed build never creates or changes it
C15_TrackerOfLastWheel ==
    /\ [](tracker = TrackerOfBuilt)
    /\ [][TrackerWritten]_vars

\* a build_wheel has succeeded, then another with another filename, then a
\* build_sdist: the tracker holds the second filename
C15_Witness ==
    /\ bpc = "idle"
    /\ Len(built) = 3
    /\ built[1] = Built("build_wheel", TRUE, JStr(WheelName))
    /\ built[2] = Built("build_wheel", TRUE, JStr(OtherWheelName))
    /\ built[3].command = "build_sdist" /\ built[3].ok
    /\ tracker = [exists |-> TRUE, text |-> OtherWheelName \o <<10>>]

(***************************************************************************)
(* The self-hosted backend: build_wheel and build_sdist of src/backend.    *)
(***************************************************************************)
\* the most archives one behaviour builds
MaxArchives == 2

\* the characters of the file names of the source tree
NameText(name) ==
    CASE name = "LICENSE" -> <<76, 73, 67, 69, 78, 83, 69>>
      [] name = "LICENSE.txt" -> <<76, 73, 67, 69, 78, 83, 69, 46, 116, 120, 116>>
      [] name = "README.md" -> <<82, 69, 65, 68, 77, 69, 46, 109, 100>>
      [] name = "pyproject.toml" ->
            <<112, 121, 112, 114, 111, 106, 101, 99, 116, 46, 116, 111, 109, 108>>
      [] name = "__init__.py" -> <<95, 95, 105, 110, 105, 116, 95, 95, 46, 112, 121>>
      [] name = "a.py" -> <<97, 46, 112, 121>>
      [] name = "a.pyc" -> <<97, 46, 112, 121, 99>>
      [] name = "link.py" -> <<108, 105, 110, 107, 46, 112, 121>>

DirEntry(name, kind, data) == [name |-> name, kind |-> kind, data |-> data]

\* the files of the project's directory
RootDir ==
    { DirEntry("LICENSE", "file", <<108, 10>>),
      DirEntry("LICENSE.txt", "file", <<116, 10>>),
      DirEntry("README.md", "file", <<35, 10>>),
      DirEntry("pyproject.toml", "file", <<91, 93, 10>>) }

\* src/foo, the one package below package_dir: two modules, a compiled
\* module and a symbolic link to a module
PackageDir ==
    { DirEntry("__init__.py", "file", <<>>),
      DirEntry("a.py", "file", ModuleBytes),
      DirEntry("a.pyc", "file", <<0, 13>>),
      DirEntry("link.py", "symlink", ModuleBytes) }

\* the orders in which the file system may list a directory, and in which
\* a set may be iterated
Listings(dir) ==
    { s \in [1..Cardinality(dir) -> dir] : \A i, j \in DOMAIN s : s[i] = s[j] => i = j }

\* the interpreter's order of two strings
RECURSIVE Less(_, _)
Less(a, b) ==
    IF b = <<>> THEN FALSE
    ELSE IF a = <<>> THEN TRUE
    ELSE IF Head(a) # Head(b) THEN Head(a) < Head(b)
    ELSE Less(Tail(a), Tail(b))

\* the sorted entries with one more entry at its place
RECURSIVE Insert(_, _)
Insert(e, s) ==
    IF s = <<>> THEN <<e>>
    ELSE IF Less(NameText(e.name), NameText(Head(s).name)) THEN <<e>> \o s
    ELSE <<Head(s)>> \o Insert(e, Tail(s))

\* sorted(files): the listing in the order of the names
RECURSIVE sorted(_)
sorted(listing) ==
    IF listing = <<>> THEN <<>> ELSE Insert(Head(listing), sorted(Tail(listing)))

\* Path.suffix: the name from its last "." on, if that is not the first
\* character
Suffix(text) ==
    IF \E i \in 2..Len(text) : text[i] = 46
    THEN Drop(text, (CHOOSE i \in 2..Len(text) :
                        text[i] = 46 /\ \A j \in (i + 1)..Len(text) : text[j] # 46) - 1)
    ELSE <<>>

\* ".py"
PySuffix == <<46, 112, 121>>

\* fnmatch of a name against a pattern of literals, "*" and "[...]"
RECURSIVE FnMatch(_, _)
FnMatch(pat, name) ==
    IF pat = <<>> THEN name = <<>>
    ELSE IF Head(pat) = 42
        THEN FnMatch(Tail(pat), name) \/ (name # <<>> /\ FnMatch(pat, Tail(name)))
    ELSE IF name = <<>> THEN FALSE
    ELSE IF Head(pat) = 91 /\ \E k \in 3..Len(pat) : pat[k] = 93
        THEN \E k \in {CHOOSE c \in 3..Len(pat) : pat[c] = 93 /\ \A d \in 3..(c - 1) : pat[d] # 93} :
                /\ Head(name) \in Range(SubSeq(pat, 2, k - 1))
                /\ FnMatch(Drop(pat, k), Tail(name))
    ELSE Head(pat) = Head(name) /\ FnMatch(Tail(pat), Tail(name))

\* cwd.glob(pattern): the entries that match, in the order of the listing
Glob(listing, pattern) ==
    SelectSeq(listing, LAMBDA e : FnMatch(pattern, NameText(e.name)))

\* "LICEN[CS]E*", "COPYING*", "NOTICE*", "AUTHORS*"
default_license_files ==
    << <<76, 73, 67, 69, 78, 91, 67, 83, 93, 69, 42>>,
       <<67, 79, 80, 89, 73, 78, 71, 42>>,
       <<78, 79, 84, 73, 67, 69, 42>>,
       <<65, 85, 84, 72, 79, 82, 83, 42>> >>

\* a project whose only module is src/foo/a.py and whose directory holds
\* pyproject.toml and nothing else
BareDir == { DirEntry("pyproject.toml", "file", <<91, 93, 10>>) }

OneModuleDir == { DirEntry("a.py", "file", ModuleBytes) }

\* a project with a license file, the key dynamic and the files above
Project(name, license_files, readme) ==
    [name |-> name, license_files |-> license_files, readme |-> readme,
     license |-> TRUE, dynamic |-> TRUE, root |-> RootDir, package |-> PackageDir]

\* a project table with name and version, with or without the key dynamic,
\* and the backend's table with package_dir
MinimalProject(name, dynamic) ==
    [name |-> name, license_files |-> default_license_files, readme |-> FALSE,
     license |-> FALSE, dynamic |-> dynamic, root |-> BareDir, package |-> OneModuleDir]

\* "LICENSE", "LICENSE*", "LICENSE.txt"
OneLicense == << <<76, 73, 67, 69, 78, 83, 69>> >>

OverlappingLicenses ==
    << <<76, 73, 67, 69, 78, 83, 69, 42>>,
       <<76, 73, 67, 69, 78, 83, 69, 46, 116, 120, 116>> >>

\* the projects and their environments: "foo", "FOO" and "Foo", with the license
\* files of the default patterns, of one name and of two patterns that
\* match the same file, with and without a readme file, with and without
\* SOURCE_DATE_EPOCH
Scenarios ==
    { <<Project(FooName, default_license_files, FALSE), [set |-> TRUE, value |-> 900]>>,
      <<Project(<<70, 79, 79>>, OneLicense, TRUE), [set |-> TRUE, value |-> 900]>>,
      <<Project(FooName, OverlappingLicenses, FALSE), [set |-> TRUE, value |-> 900]>>,
      <<Project(FooName, OneLicense, FALSE), [set |-> TRUE, value |-> 900]>>,
      <<Project(FooName, OneLicense, FALSE), NoEpoch>>,
      <<MinimalProject(<<70, 111, 111>>, TRUE), [set |-> TRUE, value |-> 900]>>,
      <<MinimalProject(<<70, 111, 111>>, FALSE), [set |-> TRUE, value |-> 900]>> }

\* re.sub(r"[-_.]+", "_", name): a run of "-", "_" and "." becomes one "_"
RECURSIVE SubRuns(_, _)
SubRuns(name, inRun) ==
    IF name = <<>> THEN <<>>
    ELSE IF Head(name) \in {45, 95, 46}
        THEN (IF inRun THEN <<>> ELSE <<95>>) \o SubRuns(Tail(name), TRUE)
    ELSE <<Head(name)>> \o SubRuns(Tail(name), FALSE)

normalize_name_pep427(name) == Lower(SubRuns(name, FALSE))

\* int(os.environ.get("SOURCE_DATE_EPOCH", mtime))
source_date_time(mtime) == IF epoch.set THEN epoch.value ELSE mtime

\* time.gmtime(...)[0:6], as <<minutes, seconds>>
source_date_time_zinfo(mtime) ==
    <<source_date_time(mtime) \div 60, source_date_time(mtime) % 60>>

\* the time a zip member stores: the seconds are kept in twos
DosTime(date_time) == <<date_time[1], 2 * (date_time[2] \div 2)>>

\* the wall clock of a build and the modification time of the files: a
\* build takes less than a second, and the files are touched together
Stamps == [now : {1000, 1003}, mtime : {500, 777}]

\* "-py3-none-any.whl", ".tar.gz"
WheelTail ==
    <<45, 112, 121, 51, 45, 110, 111, 110, 101, 45, 97, 110, 121, 46, 119, 104, 108>>

SdistTail == <<46, 116, 97, 114, 46, 103, 122>>

\* metadata_pep621["version"]
DistrVersion == FooVersion

\* CoreMetadata(...).dump_as_bytes(): the headers ("N:" and the name stand
\* for them), the license file's text and the readme as the payload
CoreMetadataBytes(p) ==
    <<78, 58>> \o p.name \o <<10>> \o (IF p.license THEN <<108, 10>> ELSE <<>>)
    \o (IF p.readme THEN <<10, 35, 10>> ELSE <<>>)

\* CoreMetadata.required_files
required_files(p) ==
    (IF p.license THEN {"LICENSE"} ELSE {}) \cup (IF p.readme THEN {"README.md"} ELSE {})

\* WheelMetadata(...).dump_as_bytes(): "W:1.0" stands for the headers
wheel_data == WheelBytes

Member(name, date_time, data) == [name |-> name, date_time |-> date_time, data |-> data]

\* a walk that takes the files as the file system lists them
MutPackagedModules(listing) ==
    SelectSeq(listing, LAMBDA e : Suffix(NameText(e.name)) = PySuffix /\ e.kind = "file")

\* the modules package_modules packages from a listing of the package
PackagedModules(listing) ==
    SelectSeq(sorted(listing),
              LAMBDA e : Suffix(NameText(e.name)) = PySuffix /\ e.kind = "file")

\* the files package_license_files packages: pattern by pattern, each in
\* the order of the listing
RECURSIVE LicenseEntries(_, _)
LicenseEntries(listing, patterns) ==
    IF patterns = <<>> THEN <<>>
    ELSE SelectSeq(Glob(listing, Head(patterns)), LAMBDA e : e.kind = "file")
         \o LicenseEntries(listing, Tail(patterns))

\* WheelBuilder.add_record's row
RecordRow(path, data) == <<path, HashInfo(Sha256Name, data), SizeText(data)>>

\* WheelBuilder.package_file for each of the members
PackageFiles(ms) ==
    /\ archive' = [archive EXCEPT !.members = @ \o ms]
    /\ records' = records \o [i \in DOMAIN ms |-> RecordRow(ms[i].name, ms[i].data)]

\* "KeyError: 'dynamic'"
KeyErrorDynamic == "KeyError: 'dynamic'"

\* parse_pep621_metadata: what it raises, "" if nothing; the project table
\* of the model has a name, a static version and no unexpected field, and
\* the backend's table has no version_file
parse_pep621_metadata(p) == IF ~p.dynamic THEN KeyErrorDynamic ELSE ""

installerVars == <<wheelInputs, toolVars, ipc, ierror, opened, dist_info, warned, destVars>>

\* backend.build_wheel, lines 180-204
BackendBuildWheel ==
    /\ kpc = "idle"
    /\ ipc \in {"idle", "installed", "failed"}
    /\ Len(archives) < MaxArchives
    /\ 45 \notin Range(DistrVersion)
    /\ raised' = parse_pep621_metadata(project)
    /\ IF raised' # ""
       THEN UNCHANGED <<archive, records, stamp, kpc>>
       ELSE /\ archive' = [kind |-> "wheel",
                           filename |-> normalize_name_pep427(project.name) \o <<45>>
                                        \o DistrVersion \o WheelTail,
                           mtime |-> 0, members |-> <<>>]
            /\ records' = <<>>
            /\ stamp' \in Stamps
            /\ kpc' = "package_modules"
    /\ UNCHANGED <<hookVars, installerVars, project, epoch, archives>>

\* WheelBuilder.package_modules
PackageModules ==
    /\ kpc = "package_modules"
    /\ \E listing \in Listings(project.package) :
          \E es \in {PackagedModules(listing)} :
             PackageFiles([i \in DOMAIN es |->
                              Member(<<"foo", es[i].name>>,
                                     DosTime(source_date_time_zinfo(stamp.mtime)), es[i].data)])
    /\ kpc' = "package_wheel_metadata"
    /\ UNCHANGED <<hookVars, installerVars, project, epoch, raised, archives, stamp>>

\* WheelBuilder.package_wheel_metadata
PackageWheelMetadata ==
    /\ kpc = "package_wheel_metadata"
    /\ PackageFiles(<<Member(WheelPath, DosTime(source_date_time_zinfo(stamp.now)),
                              wheel_data)>>)
    /\ kpc' = "package_metadata"
    /\ UNCHANGED <<hookVars, installerVars, project, epoch, raised, archives, stamp>>

\* WheelBuilder.package_metadata
PackageMetadata ==
    /\ kpc = "package_metadata"
    /\ PackageFiles(<<Member(MetadataPath, DosTime(source_date_time_zinfo(stamp.now)),
                              CoreMetadataBytes(project))>>)
    /\ kpc' = "package_license_files"
    /\ UNCHANGED <<hookVars, installerVars, project, epoch, raised, archives, stamp>>

\* WheelBuilder.package_license_files
PackageLicenseFiles ==
    /\ kpc = "package_license_files"
    /\ \E listing \in Listings(project.root) :
          \E es \in {LicenseEntries(listing, project.license_files)} :
             PackageFiles([i \in DOMAIN es |->
                              Member(<<DistInfo, es[i].name>>,
                                     DosTime(source_date_time_zinfo(stamp.mtime)), es[i].data)])
    /\ kpc' = "package_record"
    /\ UNCHANGED <<hookVars, installerVars, project, epoch, raised, archives, stamp>>

\* WheelBuilder.package_record and the end of the with block: RECORD holds
\* the rows csv.writer is given; the names of the model have no comma, no
\* quote and no line break, so that a reader gets the same rows back
PackageRecord ==
    /\ kpc = "package_record"
    /\ \E rows \in {Append(records, <<RecordPath, <<>>, <<>>>>)} :
          archives' = Append(archives,
                             [archive EXCEPT !.members =
                                 Append(@, Member(RecordPath,
                                                  DosTime(source_date_time_zinfo(stamp.now)),
                                                  rows))])
    /\ archive' = NoArchive
    /\ records' = <<>>
    /\ stamp' = NoStamp
    /\ kpc' = "idle"
    /\ UNCHANGED <<hookVars, installerVars, project, epoch, raised>>

\* f"{distr_name}-{distr_version}", the directory of the sdist's members
SdistRoot == "foo-1.0"

EntryOf(dir, name) == CHOOSE e \in dir : e.name = name

\* SdistBuilder.package_file for each of the members
SdistPackageFile(ms) == archive' = [archive EXCEPT !.members = @ \o ms]

\* backend.build_sdist, lines 132-159, and SdistBuilder.__init__: the gzip
\* stream tarfile.open starts has the time of the call in its header
BackendBuildSdist ==
    /\ kpc = "idle"
    /\ ipc \in {"idle", "installed", "failed"}
    /\ Len(archives) < MaxArchives
    /\ 45 \notin Range(DistrVersion)
    /\ raised' = parse_pep621_metadata(project)
    /\ IF raised' # ""
       THEN UNCHANGED <<archive, stamp, kpc>>
       ELSE /\ stamp' \in Stamps
            /\ archive' = [kind |-> "sdist",
                           filename |-> normalize_name_pep427(project.name) \o <<45>>
                                        \o DistrVersion \o SdistTail,
                           mtime |-> stamp'.now, members |-> <<>>]
            /\ kpc' = "sdist_package_modules"
    /\ UNCHANGED <<hookVars, installerVars, project, epoch, records, archives>>

\* SdistBuilder.package_modules
SdistPackageModules ==
    /\ kpc = "sdist_package_modules"
    /\ \E listing \in Listings(project.package) :
          \E es \in {PackagedModules(listing)} :
             SdistPackageFile([i \in DOMAIN es |->
                                  Member(<<SdistRoot, "src", "foo", es[i].name>>,
                                         source_date_time(stamp.mtime), es[i].data)])
    /\ kpc' = "sdist_package_metadata"
    /\ UNCHANGED <<hookVars, installerVars, project, epoch, raised, records, archives, stamp>>

\* SdistBuilder.package_metadata
SdistPackageMetadata ==
    /\ kpc = "sdist_package_metadata"
    /\ SdistPackageFile(<<Member(<<SdistRoot, "PKG-INFO">>, source_date_time(stamp.now),
                                  CoreMetadataBytes(project))>>)
    /\ kpc' = "sdist_package_files"
    /\ UNCHANGED <<hookVars, installerVars, project, epoch, raised, records, archives, stamp>>

\* build_sdist, lines 165-167, and SdistBuilder.package_files: the set of
\* the required files is iterated in the order the interpreter's hashes of
\* the names give
SdistPackageFiles ==
    /\ kpc = "sdist_package_files"
    /\ \E files \in Listings({"pyproject.toml"} \cup required_files(project)) :
          \E es \in {SelectSeq([i \in DOMAIN files |-> EntryOf(project.root, files[i])],
                               LAMBDA e : e.kind = "file")} :
             SdistPackageFile([i \in DOMAIN es |->
                                  Member(<<SdistRoot, es[i].name>>,
                                         source_date_time(stamp.mtime), es[i].data)])
    /\ kpc' = "sdist_package_license_files"
    /\ UNCHANGED <<hookVars, installerVars, project, epoch, raised, records, archives, stamp>>

\* SdistBuilder.package_license_files
SdistPackageLicenseFiles ==
    /\ kpc = "sdist_package_license_files"
    /\ \E listing \in Listings(project.root) :
          \E es \in {LicenseEntries(listing, project.license_files)} :
             SdistPackageFile([i \in DOMAIN es |->
                                  Member(<<SdistRoot, es[i].name>>,
                                         source_date_time(stamp.mtime), es[i].data)])
    /\ kpc' = "sdist_close"
    /\ UNCHANGED <<hookVars, installerVars, project, epoch, raised, records, archives, stamp>>

\* the end of build_sdist's with block
SdistClose ==
    /\ kpc = "sdist_close"
    /\ archives' = Append(archives, archive)
    /\ archive' = NoArchive
    /\ stamp' = NoStamp
    /\ kpc' = "idle"
    /\ UNCHANGED <<hookVars, installerVars, project, epoch, raised, records>>

----
\* the archive as ZipFile gives it to the installer: a name that was
\* written twice reads as its last member, RECORD as its rows
WheelOf(a) ==
    [files |->
        [ p \in {a.members[i].name : i \in DOMAIN a.members} \ {RecordPath} |->
            a.members[CHOOSE i \in DOMAIN a.members :
                         /\ a.members[i].name = p
                         /\ \A j \in (i + 1)..Len(a.members) : a.members[j].name # p].data ],
     has_record |-> \E i \in DOMAIN a.members : a.members[i].name = RecordPath,
     record |-> a.members[Len(a.members)].data]

\* install_wheel is called with the wheel that was built last
InstallBuilt ==
    /\ kpc = "idle"
    /\ ipc = "idle"
    /\ archives # <<>>
    /\ archives[Len(archives)].kind = "wheel"
    /\ wheel' = WheelOf(archives[Len(archives)])
    /\ wheel_name' = archives[Len(archives)].filename
    /\ zip_file' = TRUE
    /\ executable' = ShortExecutable
    /\ ipc' = "open"
    /\ UNCHANGED <<hookVars, backendVars, toolVars, strip_dist_info, tamper, installer,
                   ierror, opened, dist_info, warned, destVars>>

InitBackend ==
    /\ PipelineIdle
    /\ InstallerIdle
    /\ ToolsIdle
    /\ \E sc \in Scenarios : project = sc[1] /\ epoch = sc[2]
    /\ kpc = "idle"
    /\ archive = NoArchive
    /\ records = <<>>
    /\ archives = <<>>
    /\ stamp = NoStamp
    /\ raised = ""

BackendNext ==
    \/ BackendBuildWheel
    \/ PackageModules
    \/ PackageWheelMetadata
    \/ PackageMetadata
    \/ PackageLicenseFiles
    \/ PackageRecord
    \/ BackendBuildSdist
    \/ SdistPackageModules
    \/ SdistPackageMetadata
    \/ SdistPackageFiles
    \/ SdistPackageLicenseFiles
    \/ SdistClose
    \/ InstallBuilt
    \/ InstallNext

SpecBackend == InitBackend /\ [][BackendNext]_vars

(***************************************************************************)
(* Claims about the archives of the self-hosted backend.                   *)
(***************************************************************************)
SameKind(i, j) == archives[i].kind = archives[j].kind

\* C18: two archives of the same kind built from the same tree under the
\* same SOURCE_DATE_EPOCH are the same archive: the same members in the same
\* order with the same times and bytes, and the same header, whatever the
\* files' modification times, the wall clock, the listing order of the
\* directories and the iteration order of the sets
C18_ReproducibleArchives ==
    epoch.set =>
        \A i, j \in DOMAIN archives : SameKind(i, j) => archives[i] = archives[j]

\* what WheelFile(wheel_path) raises for a built wheel: "" when the wheel
\* is accepted
Rejection(a) ==
    The({ IF r.err # "" THEN r.err
          ELSE The({ IF validate_dist_info(w, d) # "" THEN validate_dist_info(w, d)
                     ELSE IF validate_wheel_spec_version(w) # ""
                         THEN validate_wheel_spec_version(w)
                     ELSE validate_record(w) :
                     <<w, d>> \in {<<WheelOf(a), DistInfoName(r.dist_name, r.dist_version)>>} }) :
          r \in {parse_name(a.filename)} })

\* the rows of RECORD for a path
RowsOf(w, path) == {i \in DOMAIN w.record : w.record[i][1] = path}

\* RECORD has one row for each member but itself, with the sha256 digest
\* of the member's stored bytes, at most one row for a path and no row for
\* a path that is not a member
RecordMatches(a) ==
    \E w \in {WheelOf(a)} :
       /\ \A i \in DOMAIN a.members :
             a.members[i].name # RecordPath =>
                /\ Cardinality(RowsOf(w, a.members[i].name)) = 1
                /\ \A j \in RowsOf(w, a.members[i].name) :
                      w.record[j][2] = HashInfo(Sha256Name, w.files[a.members[i].name])
       /\ \A i, j \in DOMAIN w.record : w.record[i][1] = w.record[j][1] => i = j
       /\ \A i \in DOMAIN w.record : w.record[i][1] \in memberlist(w)

\* the file name parses back to the name and the version of the dist-info
\* directory
NameParsesBack(a) ==
    \E r \in {parse_name(a.filename)} :
       /\ r.err = ""
       /\ r.dist_name = normalize_name_pep427(project.name)
       /\ r.dist_version = DistrVersion
       /\ DistInfoName(r.dist_name, r.dist_version) = DistInfo

\* C19: every wheel the backend builds has a RECORD that matches its
\* members and a file name that parses back, so that the installer's
\* validation accepts it and install_wheel does not fail on it
C19_BuiltWheelAccepted ==
    /\ \A k \in DOMAIN archives :
          archives[k].kind = "wheel" =>
             /\ RecordMatches(archives[k])
             /\ NameParsesBack(archives[k])
             /\ Rejection(archives[k]) = ""
    /\ ipc # "failed"

(***************************************************************************)
(* Claims about the .data directory, the hashes of RECORD and the name of  *)
(* the wheel file.                                                         *)
(***************************************************************************)
\* the members of the wheel below its .data directory
DataMembersOf(w, data) == {m \in DOMAIN w.files : Len(m) > 2 /\ m[1] = data}

\* C21: after a successful install of a wheel with a .data directory every
\* file of a scheme key is at the key's destination, every file of the
\* scripts key that starts with "#!python" has its first line replaced by
\* the interpreter's shebang and its other bytes kept, and nothing of the
\* .data directory is left in the installed tree
C21_DataInstalled ==
    (ipc = "installed" /\ DataExists(wheel, DataName(dist_info))) =>
        /\ DOMAIN data_files = {Drop(m, 1) : m \in DataMembersOf(wheel, DataName(dist_info))}
        /\ \A m \in DataMembersOf(wheel, DataName(dist_info)) :
              data_files[Drop(m, 1)] =
                 IF m[2] = "scripts" /\ IsPrefix(MAGIC_SHEBANG, wheel.files[m])
                     THEN build_shebang(executable) \o <<10>> \o AfterFirstLine(wheel.files[m])
                 ELSE wheel.files[m]
        /\ ~\E p \in installed : p[1] = DataName(dist_info)

\* the states of install_wheel in which validate_record has accepted RECORD
PastRecord ==
    ipc \in {"validate_entry_points", "validate_data", "extract",
             "generate_entrypoints_scripts", "write_installer",
             "install_wheel_data", "installed"}

\* the row names md5 or sha1, in any letter case, as its hash algorithm
IsWeakRow(row) ==
    /\ Len(row) >= 2
    /\ Lower(PartitionEq(row[2], <<>>).head) \in {Md5Name, Sha1Name}

\* C22 as stated: a wheel whose RECORD has a row with the algorithm md5 or
\* sha1, in any letter case, is never accepted
C22_WeakHashRejected ==
    (\E i \in DOMAIN wheel.record : IsWeakRow(wheel.record[i])) => ~PastRecord

\* C22: a wheel whose RECORD has a row, for a member other than RECORD
\* itself, with the algorithm md5 or sha1 in any letter case is never
\* accepted, also when the digest is that of the member's bytes
C22_WeakHashOfMemberRejected ==
    (\E i \in DOMAIN wheel.record :
        IsWeakRow(wheel.record[i]) /\ wheel.record[i][1] # RecordPath) => ~PastRecord

\* a wheel is rejected for a row that gives the right md5 digest of its
\* member under the name "MD5"
C22_Witness ==
    /\ ipc = "failed"
    /\ ierror = ErrWeakHash
    /\ \E i \in DOMAIN wheel.record :
          /\ Len(wheel.record[i]) = 3
          /\ wheel.record[i][1] \in DOMAIN wheel.files
          /\ wheel.record[i][2] = HashInfo(Md5Upper, wheel.files[wheel.record[i][1]])

\* how many "-" a text has
Dashes(text) == Cardinality({i \in DOMAIN text : text[i] = 45})

\* the text before its suffix ".whl"
Stem(text) == SubSeq(text, 1, Len(text) - 4)

\* the file name is malformed: it does not end in ".whl", or it has fewer
\* than 5 or more than 6 segments, or its first or second segment is empty
Malformed(text) ==
    \/ Len(text) < 4
    \/ SubSeq(text, Len(text) - 3, Len(text)) # <<46, 119, 104, 108>>
    \/ Dashes(Stem(text)) \notin {4, 5}
    \/ Stem(text)[1] = 45
    \/ \E i \in DOMAIN Stem(text) :
          /\ Stem(text)[i] = 45
          /\ \A j \in 1..(i - 1) : Stem(text)[j] # 45
          /\ Stem(text)[i + 1] = 45

\* parse_name has run
NameParsed == ipc \notin {"idle", "open", "parse_name"} /\ ierror # ErrBadZipFile

\* the position of the k-th "-" of a text that has one
DashAt(text, k) ==
    CHOOSE i \in DOMAIN text :
       text[i] = 45 /\ Cardinality({j \in 1..i : text[j] = 45}) = k

\* the first and the second segment of a file name that is not malformed
NameSegment(text) == SubSeq(text, 1, DashAt(text, 1) - 1)

VersionSegment(text) == SubSeq(text, DashAt(text, 1) + 1, DashAt(text, 2) - 1)

\* C23: the file name made of a non-empty name and version without "-" and
\* of three tags, with or without a build tag before them, parses back to
\* that name and version: a file name that is not malformed parses to its
\* first two segments; a malformed file name is rejected
C23_ParseNameRoundTrip ==
    /\ ipc = "parse_name" =>
          \A f \in NameFields :
             ( /\ wheel_name = FormatName(f)
               /\ f.name # <<>> /\ f.version # <<>>
               /\ 45 \notin Range(f.name) \cup Range(f.version)
               /\ Len(f.rest) \in {3, 4}
               /\ f.suffix = WhlSuffix ) =>
                 parse_name(wheel_name) =
                    [err |-> "", dist_name |-> f.name, dist_version |-> f.version]
    /\ ~Malformed(wheel_name) =>
          /\ parse_name(wheel_name) =
                [err |-> "", dist_name |-> NameSegment(wheel_name),
                 dist_version |-> VersionSegment(wheel_name)]
          /\ NameParsed =>
                /\ ierror # ErrInvalidName
                /\ dist_info = DistInfoName(NameSegment(wheel_name),
                                            VersionSegment(wheel_name))
    /\ Malformed(wheel_name) =>
          /\ parse_name(wheel_name).err = ErrInvalidName
          /\ NameParsed =>
                ipc = "failed" /\ ierror = ErrInvalidName /\ installed = {}

\* "f.o_o-2-1-py3-none-any.whl" has been parsed, and it is not the name
\* that was rejected
C23_Witness ==
    /\ wheel_name = FormatName([name |-> <<102, 46, 111, 95, 111>>, version |-> <<50>>,
                                rest |-> << <<49>>, <<112, 121, 51>>,
                                            <<110, 111, 110, 101>>, <<97, 110, 121>> >>,
                                suffix |-> WhlSuffix])
    /\ NameParsed
    /\ dist_info = "other.dist-info"
    /\ ierror # ErrInvalidName

(***************************************************************************)
(* Claims about the wheel of a project with no optional metadata.          *)
(***************************************************************************)
\* the project table has a name and a version and none of the optional
\* fields of the metadata
OnlyNameAndVersion(p) == ~p.license /\ ~p.readme

\* the names of the members of an archive
MemberNames(a) == {a.members[i].name : i \in DOMAIN a.members}

\* C24: a project that declares only a name and a version is built into a
\* wheel: build_wheel raises nothing, the file is named
\* foo-1.0-py3-none-any.whl after the normalized name, and its members are
\* exactly METADATA, WHEEL, RECORD and the one module of the project
C24_MinimalWheel ==
    OnlyNameAndVersion(project) =>
        /\ raised = ""
        /\ \A k \in DOMAIN archives :
              archives[k].kind = "wheel" =>
                 /\ archives[k].filename = FooName \o <<45>> \o FooVersion \o WheelTail
                 /\ Len(archives[k].members) = 4
                 /\ MemberNames(archives[k]) =
                       {<<"foo", "a.py">>, WheelPath, MetadataPath, RecordPath}

(***************************************************************************)
(* build_metadata of the front-end.  _build.py of this tree does not hold  *)
(* it; the steps below follow its description: the optional hook           *)
(* prepare_metadata_for_build_wheel first, build_wheel into a scratch      *)
(* directory when the backend lacks it.                                    *)
(***************************************************************************)
MetadataHook == "prepare_metadata_for_build_wheel"

\* the name of the file build_metadata writes and returns
MetadataFilename == "METADATA"

\* "foo-1.0-py3-none-any.whl" as the name of a file
WheelFile == "foo-1.0-py3-none-any.whl"

\* the texts a backend may give as its metadata: "N:f", "N:f" and a line
\* break, "N:f" and a requirement, nothing
MetadataTexts ==
    { MetadataBytes, MetadataBytes \o <<10>>, MetadataBytes \o <<10, 82, 58, 97>>,
      MetadataBytes \o <<10, 82, 58, 98>>, <<>>, <<10>> }

\* backends with and without the optional hook
Backends ==
    [prepare : BOOLEAN, content : MetadataTexts, wheel_name : {GoodWheelName}]

\* what the output directory may hold before the call
OutDirs ==
    { NoFiles,
      <<MetadataFilename>> :> <<111, 108, 100>>,
      <<"a.whl">> :> <<80, 75>>,
      (<<MetadataFilename>> :> <<111, 108, 100>>) @@ (<<"a.whl">> :> <<80, 75>>) }

\* the files a directory holds below a name
Below(name, files) == [p \in {<<name>> \o q : q \in DOMAIN files} |-> files[Tail(p)]]

\* the wheel the backend's build_wheel writes: its metadata, WHEEL, a module
\* and RECORD
BuiltWheel(b) ==
    (MetadataPath :> b.content) @@ (WheelPath :> WheelBytes)
    @@ (ModulePath :> ModuleBytes) @@ (RecordPath :> <<>>)

\* the call of the optional hook with a scratch directory: a backend that
\* has it writes METADATA below its dist-info directory and returns the
\* directory's name, the caller of a backend without it gets ""
PrepareMetadata ==
    /\ mpc = "idle"
    /\ mcalls' = Append(mcalls, MetadataHook)
    /\ IF mbackend.prepare
       THEN /\ scratch' = (MetadataPath :> mbackend.content)
            /\ mhook' = DistInfo
       ELSE /\ scratch' = NoFiles
            /\ mhook' = ""
    /\ mpc' = "prepared"
    /\ UNCHANGED <<mbackend, outdir, mresult>>

\* the backend does not implement the optional hook
MutUseFallback(distinfo_dir) == TRUE

UseFallback(distinfo_dir) == distinfo_dir = ""

\* the hook's METADATA is copied to the output directory, the scratch
\* directory is removed
CopyMetadata ==
    /\ mpc = "prepared"
    /\ ~UseFallback(mhook)
    /\ <<mhook, MetadataFilename>> \in DOMAIN scratch
    /\ outdir' = (<<MetadataFilename>> :> scratch[<<mhook, MetadataFilename>>]) @@ outdir
    /\ scratch' = NoFiles
    /\ mresult' = MetadataFilename
    /\ mpc' = "returned"
    /\ UNCHANGED <<mbackend, mcalls, mhook>>

\* the fallback: build_wheel is called with another scratch directory
FallbackBuildWheel ==
    /\ mpc = "prepared"
    /\ UseFallback(mhook)
    /\ mcalls' = Append(mcalls, "build_wheel")
    /\ scratch' = Below(WheelFile, BuiltWheel(mbackend))
    /\ mhook' = WheelFile
    /\ mpc' = "built"
    /\ UNCHANGED <<mbackend, outdir, mresult>>

\* METADATA of the wheel's dist-info directory, which the wheel's file name
\* gives, is written to the output directory; the wheel is discarded
ExtractMetadata ==
    /\ mpc = "built"
    /\ \E r \in {parse_name(mbackend.wheel_name)} :
          /\ r.err = ""
          /\ \E member \in {<<mhook, DistInfoName(r.dist_name, r.dist_version),
                              MetadataFilename>>} :
                /\ member \in DOMAIN scratch
                /\ outdir' = (<<MetadataFilename>> :> scratch[member]) @@ outdir
    /\ scratch' = NoFiles
    /\ mresult' = MetadataFilename
    /\ mpc' = "returned"
    /\ UNCHANGED <<mbackend, mcalls, mhook>>

\* what build_metadata leaves alone
buildFrame ==
    <<hookVars, wheelInputs, backendVars, ipc, ierror, opened, dist_info, warned, destVars,
      depsVars, groupVars>>


InitMetadata ==
    /\ PipelineIdle
    /\ InstallerIdle
    /\ BackendIdle
    /\ DepsIdle
    /\ GroupsIdle
    /\ mbackend \in Backends
    /\ mpc = "idle"
    /\ mcalls = <<>>
    /\ mhook = ""
    /\ scratch = NoFiles
    /\ outdir \in OutDirs
    /\ mresult = ""

MetadataNext ==
    \/ PrepareMetadata /\ UNCHANGED buildFrame
    \/ CopyMetadata /\ UNCHANGED buildFrame
    \/ FallbackBuildWheel /\ UNCHANGED buildFrame
    \/ ExtractMetadata /\ UNCHANGED buildFrame

SpecMetadata == InitMetadata /\ [][MetadataNext]_vars

\* C25: build_metadata calls the optional hook first; with a backend that
\* implements it build_wheel is never called; build_wheel is called only
\* after a backend without the hook gave the fallback, and its wheel is
\* written to the scratch directory, never to the output directory; when
\* build_metadata has returned, it has returned METADATA, that file of the
\* output directory holds the backend's metadata and the scratch directory
\* is gone
C25_MetadataPrefersHook ==
    /\ mcalls # <<>> => mcalls[1] = MetadataHook
    /\ mbackend.prepare => "build_wheel" \notin Range(mcalls)
    /\ "build_wheel" \in Range(mcalls) =>
          /\ ~mbackend.prepare
          /\ mcalls = <<MetadataHook, "build_wheel">>
    /\ \A p \in DOMAIN outdir : p[1] # WheelFile
    /\ mpc = "returned" =>
          /\ mresult = MetadataFilename
          /\ <<MetadataFilename>> \in DOMAIN outdir
          /\ outdir[<<MetadataFilename>>] = mbackend.content
          /\ scratch = NoFiles
          /\ mbackend.prepare => mcalls = <<MetadataHook>>

\* a backend with build_wheel only: METADATA of its wheel has replaced the
\* old file of the output directory
C25_Witness ==
    /\ mpc = "returned"
    /\ ~mbackend.prepare
    /\ mcalls = <<MetadataHook, "build_wheel">>
    /\ mbackend.content = MetadataBytes \o <<10, 82, 58, 97>>
    /\ outdir = (<<MetadataFilename>> :> mbackend.content) @@ (<<"a.whl">> :> <<80, 75>>)

(***************************************************************************)
(* Claims about the defaults of the build system.                          *)
(***************************************************************************)
\* pyproject.toml is not a file, or it is TOML without a build-system table
WithoutBuildSystem(pp) ==
    \/ pp.state = "absent"
    \/ pp.state = "valid" /\ ~pp.has_build_system

\* setuptools.build_meta:__legacy__, requires setuptools and wheel, no
\* backend-path
LegacySetuptools ==
    [backend |-> <<"setuptools.build_meta", ":", "__legacy__">>,
     requires |-> << <<"setuptools">>, <<"wheel">> >>,
     has_backend_path |-> FALSE,
     backend_path |-> <<>>]

\* C26: for a project without pyproject.toml, or with one that has no
\* build-system table, parse_build_system_spec raises nothing and gives
\* the default: call_hook goes on with the backend
\* setuptools.build_meta:__legacy__, the requirements setuptools and wheel
\* and no backend-path, and what it may raise later is not an error of the
\* parser
C26_DefaultWithoutTable ==
    WithoutBuildSystem(pyproject) =>
        /\ parse_build_system_spec(fs, SrcDir, pyproject) =
              [ok |-> TRUE, err |-> NoError, bs |-> LegacySetuptools]
        /\ pc # "parse" =>
              /\ build_system = LegacySetuptools
              /\ pc = "raised" => "pipe" \in Range(events)
              /\ cpc # "none" =>
                    /\ cargs.backend = <<"setuptools.build_meta", ":", "__legacy__">>
                    /\ ~cargs.has_path

\* call_hook has returned for a project whose pyproject.toml has no
\* build-system table: the child was given the default backend
C26_Witness ==
    /\ pyproject = NoTable("valid")
    /\ pc = "returned"
    /\ build_system = LegacySetuptools
    /\ "spawn" \in Range(events)

(***************************************************************************)
(* Claims about the descriptors of the result pipe.                        *)
(***************************************************************************)
\* call_hook has handed control back after os.pipe() gave it the pipe
HandedBack == pc \in {"returned", "raised"} /\ rfd # "unset"

\* C27: whenever call_hook has handed control back to its caller, with a
\* result or with an error of the child, of the reader thread or of the
\* JSON text, the read end and the write end of the result pipe are closed
C27_PipeClosedOnReturn ==
    HandedBack => rfd = "closed" /\ wfd = "closed"

(***************************************************************************)
(* Claims about the order of the members of a built wheel.                 *)
(***************************************************************************)
\* the positions of the members of a wheel outside its dist-info directory
ModulePositions(a) == {i \in DOMAIN a.members : a.members[i].name[1] # DistInfo}

\* the modules come first, in the order of their names, and they are the
\* regular .py files of the package
ModulesFirstSorted(a) ==
    \E k \in 0..Len(a.members) :
       /\ ModulePositions(a) = 1..k
       /\ \A i, j \in 1..k :
             i < j => Less(NameText(a.members[i].name[2]), NameText(a.members[j].name[2]))
       /\ {a.members[i].name : i \in 1..k} =
             { <<"foo", e.name>> :
                 e \in {f \in project.package :
                          f.kind = "file" /\ Suffix(NameText(f.name)) = PySuffix} }
       /\ Len(a.members) >= k + 3
       /\ a.members[k + 1].name = WheelPath
       /\ a.members[k + 2].name = MetadataPath
       /\ \A i \in (k + 3)..(Len(a.members) - 1) :
             /\ a.members[i].name[1] = DistInfo
             /\ a.members[i].name \notin {WheelPath, MetadataPath, RecordPath}
       /\ a.members[Len(a.members)].name = RecordPath

\* RECORD has a row for each member, in the order of the members; its own
\* row is the last one and has neither hash nor size
RowsInMemberOrder(a) ==
    \E rows \in {a.members[Len(a.members)].data} :
       /\ Len(rows) = Len(a.members)
       /\ \A i \in DOMAIN rows : rows[i][1] = a.members[i].name
       /\ \A i \in 1..(Len(rows) - 1) :
             rows[i] = <<a.members[i].name, HashInfo(Sha256Name, a.members[i].data),
                         SizeText(a.members[i].data)>>
       /\ rows[Len(rows)] = <<RecordPath, <<>>, <<>>>>

\* C28: in every wheel the backend has built the modules come first, in
\* the sorted order of the walk, then WHEEL, METADATA and the license files
\* of the dist-info directory, and RECORD is the last member; the rows of
\* RECORD are in the order of the members, and the last row is RECORD's own,
\* with an empty hash and an empty size
C28_MemberOrder ==
    \A n \in DOMAIN archives :
       archives[n].kind = "wheel" =>
          /\ ModulesFirstSorted(archives[n])
          /\ RowsInMemberOrder(archives[n])

\* a wheel of two modules, WHEEL, METADATA, one license file and RECORD
C28_Witness ==
    /\ archives # <<>>
    /\ archives[1].kind = "wheel"
    /\ Len(archives[1].members) = 6
    /\ [i \in 1..6 |-> archives[1].members[i].name] =
          << <<"foo", "__init__.py">>, <<"foo", "a.py">>, WheelPath, MetadataPath,
             <<DistInfo, "LICENSE">>, RecordPath >>

(***************************************************************************)
(* DepsSourcesConfig.sync of deps_cmd/deps_config.py.  A requirement is    *)
(* the text of its name and of its version specifier; the sources of the   *)
(* config file have a supported collector.                                 *)
(***************************************************************************)
\* the most calls of sync in one behaviour
MaxSyncs == 2

\* "Foo", "foo>=1", "foo >= 1", "bar", "?"
ReqFooUpper == <<70, 111, 111>>

ReqFooSpec == <<102, 111, 111, 62, 61, 49>>

ReqFooSpaced == <<102, 111, 111, 32, 62, 61, 32, 49>>

ReqBar == <<98, 97, 114>>

ReqBad == <<63>>

IsNameChar(c) == (c >= 65 /\ c <= 90) \/ (c >= 97 /\ c <= 122)

\* the text without its blanks
Unspaced(text) == SelectSeq(text, LAMBDA c : c # 32)

\* the length of the name a text starts with
NameLen(text) ==
    CHOOSE n \in 0..Len(text) :
       /\ \A i \in 1..n : IsNameChar(text[i])
       /\ n = Len(text) \/ ~IsNameChar(text[n + 1])

\* a version specifier: nothing, or "<=", ">=" or "==" and a number
ValidSpecifier(spec) ==
    \/ spec = <<>>
    \/ /\ Len(spec) >= 3
       /\ spec[1] \in {60, 61, 62}
       /\ spec[2] = 61
       /\ \A i \in 3..Len(spec) : spec[i] >= 48 /\ spec[i] <= 57

\* requirements.Requirement(text): ok is FALSE where InvalidRequirement is
\* raised
Requirement(text) ==
    LET t == Unspaced(text)
        n == NameLen(t)
    IN  [ok |-> n > 0 /\ ValidSpecifier(Drop(t, n)),
         name |-> Take(t, n),
         specifier |-> Drop(t, n)]

\* str(requirement)
Str(r) == r.name \o r.specifier

\* what the equality and the hash of requirements look at: the name
\* whatever its case, and the specifier
Key(r) == [name |-> Lower(r.name), specifier |-> r.specifier]

Keys(reqs) == {Key(r) : r \in reqs}

\* set(map(requirements.Requirement, texts)): of equal requirements the
\* set keeps the first
RequirementSet(texts) ==
    { Requirement(texts[i]) :
        i \in {j \in DOMAIN texts :
                 \A k \in 1..(j - 1) :
                    Key(Requirement(texts[k])) # Key(Requirement(texts[j]))} }

\* sorted(texts)
RECURSIVE SortedTexts(_)
SortedTexts(texts) ==
    IF texts = {} THEN <<>>
    ELSE LET first == CHOOSE x \in texts : \A y \in texts : ~Less(y, x)
         IN  <<first>> \o SortedTexts(texts \ {first})

\* sorted(map(str, reqs))
SortedStr(reqs) == SortedTexts({Str(r) : r \in reqs})

Source(has_deps, deps) == [has_deps |-> has_deps, deps |-> deps]

\* source.get("deps", ())
StoredDeps(source) == IF source.has_deps THEN source.deps ELSE <<>>

ErrNonexistent == "ValueError: Nonexistent sources"

ErrCollect == "collector failed"

ErrInvalidRequirement == "InvalidRequirement"

ErrUnsynced == "DepsUnsyncedError"

\* a sync that takes a source for changed when the texts of its
\* requirements differ
RECURSIVE MutSyncSources(_, _, _)
MutSyncSources(sources, diff, names) ==
    IF names = <<>> THEN [err |-> "", sources |-> sources, diff |-> diff]
    ELSE LET srcname == Head(names)
             c == collected[srcname]
         IN  IF ~c.ok THEN [err |-> ErrCollect, sources |-> sources, diff |-> diff]
             ELSE IF \E i \in DOMAIN c.deps : ~Requirement(c.deps[i]).ok
                 THEN [err |-> ErrInvalidRequirement, sources |-> sources, diff |-> diff]
             ELSE LET synced == RequirementSet(c.deps)
                      stored == RequirementSet(StoredDeps(sources[srcname]))
                  IN  IF Range(StoredDeps(sources[srcname])) = Range(c.deps)
                      THEN MutSyncSources(sources, diff, Tail(names))
                      ELSE MutSyncSources(
                              [sources EXCEPT ![srcname] = Source(TRUE, SortedStr(synced))],
                              (srcname :>
                                 [new_deps |-> SortedTexts(Range(c.deps)),
                                  extra_deps |-> SortedTexts(Range(StoredDeps(sources[srcname])))])
                              @@ diff,
                              Tail(names))

\* sync's loop over the selected sources, lines 179-210: [err, sources, diff]
RECURSIVE SyncSources(_, _, _)
SyncSources(sources, diff, names) ==
    IF names = <<>> THEN [err |-> "", sources |-> sources, diff |-> diff]
    ELSE LET srcname == Head(names)
             c == collected[srcname]
         IN  IF ~c.ok THEN [err |-> ErrCollect, sources |-> sources, diff |-> diff]
             ELSE IF \E i \in DOMAIN c.deps : ~Requirement(c.deps[i]).ok
                 THEN [err |-> ErrInvalidRequirement, sources |-> sources, diff |-> diff]
             ELSE LET synced == RequirementSet(c.deps)
                      stored == RequirementSet(StoredDeps(sources[srcname]))
                  IN  IF Keys(stored) = Keys(synced)
                      THEN SyncSources(sources, diff, Tail(names))
                      ELSE SyncSources(
                              [sources EXCEPT ![srcname] = Source(TRUE, SortedStr(synced))],
                              (srcname :>
                                 [new_deps |->
                                     SortedStr({r \in synced : Key(r) \notin Keys(stored)}),
                                  extra_deps |->
                                     SortedStr({r \in stored : Key(r) \notin Keys(synced)})])
                              @@ diff,
                              Tail(names))

\* the names of the sources as json.dumps(sort_keys=True) writes them
SortedNames(names) == SelectSeq(<<"a", "b">>, LAMBDA x : x \in names)

\* iter_sources: the selected names, or all the sources in the order of
\* the file
SourceOrders(file, srcnames) ==
    IF srcnames # <<>> THEN {srcnames}
    ELSE IF file.canonical THEN {SortedNames(DOMAIN file.sources)}
    ELSE Listings(DOMAIN file.sources)

Call(srcnames, verify, before, err) ==
    [srcnames |-> srcnames, verify |-> verify, before |-> before, error |-> err]

\* sync(srcnames, verify) on a config object that was made for the call
Sync(srcnames, verify) ==
    /\ Len(dcalls) < MaxSyncs
    /\ IF \E i \in DOMAIN srcnames : srcnames[i] \notin DOMAIN depsfile.sources
       THEN /\ dcalls' = Append(dcalls, Call(srcnames, verify, depsfile, ErrNonexistent))
            /\ UNCHANGED <<depsfile, shown>>
       ELSE \E names \in SourceOrders(depsfile, srcnames) :
               \E r \in {SyncSources(depsfile.sources, <<>>, names)} :
                  IF r.err # ""
                  THEN /\ dcalls' = Append(dcalls, Call(srcnames, verify, depsfile, r.err))
                       /\ UNCHANGED <<depsfile, shown>>
                  ELSE /\ depsfile' = [canonical |-> TRUE, sources |-> r.sources]
                       /\ IF verify /\ DOMAIN r.diff # {}
                          THEN /\ shown' = r.diff
                               /\ dcalls' = Append(dcalls,
                                                   Call(srcnames, verify, depsfile, ErrUnsynced))
                          ELSE /\ shown' = shown
                               /\ dcalls' = Append(dcalls, Call(srcnames, verify, depsfile, ""))
    /\ UNCHANGED <<collected, hookVars, wheelInputs, backendVars, ipc, ierror, opened,
                   dist_info, warned, destVars, metaVars, groupVars>>

\* the deps a source of the file may have
StoredLists ==
    { <<>>, <<FooName>>, <<ReqFooUpper, ReqBar>>, <<ReqBar, ReqFooSpec>>, <<ReqFooSpaced>> }

\* what a collector may give
Collections ==
    { [ok |-> FALSE, deps |-> <<>>],
      [ok |-> TRUE, deps |-> <<>>],
      [ok |-> TRUE, deps |-> <<FooName, ReqFooUpper>>],
      [ok |-> TRUE, deps |-> <<ReqFooSpaced, ReqBar>>],
      [ok |-> TRUE, deps |-> <<ReqBar, ReqBad>>] }

\* the config files: a source "a", with or without the key deps, and
\* possibly a source "b"
DepsFiles ==
    { [canonical |-> c, sources |-> ("a" :> sa) @@ sb] :
        c \in BOOLEAN,
        sa \in {Source(FALSE, <<>>)} \cup {Source(TRUE, l) : l \in StoredLists},
        sb \in {<<>>, "b" :> Source(TRUE, <<ReqBar>>), "b" :> Source(TRUE, <<FooName>>)} }

\* the selections: all the sources, one, two, one that does not exist
Selections == { <<>>, <<"a">>, <<"b">>, <<"b", "a">>, <<"a", "c">> }

\* what the collectors of the two sources give
Collected ==
    { ("a" :> ca) @@ ("b" :> cb) :
        ca \in Collections,
        cb \in {[ok |-> FALSE, deps |-> <<>>], [ok |-> TRUE, deps |-> <<ReqBar>>]} }

InitDeps ==
    /\ PipelineIdle
    /\ InstallerIdle
    /\ BackendIdle
    /\ MetadataIdle
    /\ GroupsIdle
    /\ depsfile \in DepsFiles
    /\ collected \in Collected
    /\ dcalls = <<>>
    /\ shown = <<>>

DepsNext == \E srcnames \in Selections : \E verify \in BOOLEAN : Sync(srcnames, verify)

SpecDeps == InitDeps /\ [][DepsNext]_vars

(***************************************************************************)
(* Claims about sync.                                                      *)
(***************************************************************************)
\* the config file as call k of sync has left it
FileAfter(k) == IF k = Len(dcalls) THEN depsfile ELSE dcalls[k + 1].before

\* the sources a call selects
SelectedBy(call) ==
    IF call.srcnames = <<>> THEN DOMAIN call.before.sources ELSE Range(call.srcnames)

\* a selected source does not exist, its collector fails, or gives a text
\* that is not a requirement
Fails(call) ==
    \E n \in SelectedBy(call) :
       \/ n \notin DOMAIN call.before.sources
       \/ ~collected[n].ok
       \/ \E i \in DOMAIN collected[n].deps : ~Requirement(collected[n].deps[i]).ok

\* the stored and the collected requirements of a source, as compared
StoredKeys(file, n) == Keys(RequirementSet(StoredDeps(file.sources[n])))

CollectedKeys(n) == Keys(RequirementSet(collected[n].deps))

\* the stored requirements of a selected source differed from the
\* collected ones before the call
Differed(call) ==
    \E n \in SelectedBy(call) : StoredKeys(call.before, n) # CollectedKeys(n)

\* the file holds the collected requirements of the selected sources, the
\* other sources have the requirements they had
Written(call, file) ==
    /\ DOMAIN file.sources = DOMAIN call.before.sources
    /\ \A n \in DOMAIN file.sources :
          IF n \in SelectedBy(call)
          THEN /\ StoredKeys(file, n) = CollectedKeys(n)
               /\ StoredKeys(call.before, n) # CollectedKeys(n) =>
                     file.sources[n] =
                        Source(TRUE, SortedStr(RequirementSet(collected[n].deps)))
          ELSE file.sources[n] = call.before.sources[n]

SyncOutcome(k) ==
    IF Fails(dcalls[k])
    THEN /\ dcalls[k].error \in {ErrNonexistent, ErrCollect, ErrInvalidRequirement}
         /\ FileAfter(k) = dcalls[k].before
    ELSE /\ Written(dcalls[k], FileAfter(k))
         /\ dcalls[k].error =
               IF dcalls[k].verify /\ Differed(dcalls[k]) THEN ErrUnsynced ELSE ""

\* C29: a sync whose selected sources exist and are collected writes their
\* collected requirements to the config file, with verify too; it raises
\* DepsUnsyncedError exactly when verify is given and the stored
\* requirements of a selected source differed from the collected ones as
\* requirements; a sync with a selected source that does not exist or whose
\* collecting fails leaves the file as it was; and a sync with verify of
\* the selection of the sync before it, which wrote the file, raises
\* nothing
C29_SyncWritesAndVerifies ==
    /\ \A k \in DOMAIN dcalls : SyncOutcome(k)
    /\ \A k \in 2..Len(dcalls) :
          ( /\ ~Fails(dcalls[k - 1])
            /\ dcalls[k].srcnames = dcalls[k - 1].srcnames
            /\ dcalls[k].verify ) => dcalls[k].error = ""

\* sync with verify has raised DepsUnsyncedError for "foo >= 1" and "bar"
\* collected where "Foo" and "bar" were stored, and the file has the
\* collected requirements; the same call again has raised nothing
C29_Witness ==
    /\ Len(dcalls) = 2
    /\ dcalls[1] = Call(<<"a">>, TRUE, dcalls[1].before, ErrUnsynced)
    /\ dcalls[1].before.sources["a"] = Source(TRUE, <<ReqFooUpper, ReqBar>>)
    /\ collected["a"].deps = <<ReqFooSpaced, ReqBar>>
    /\ dcalls[2] = Call(<<"a">>, TRUE, depsfile, "")
    /\ depsfile.sources["a"] = Source(TRUE, <<ReqBar, ReqFooSpec>>)
    /\ shown = "a" :> [new_deps |-> <<ReqFooSpec>>, extra_deps |-> <<ReqFooUpper>>]

(***************************************************************************)
(* Pep735Collector of deps_cmd/collectors/pep735.py: the resolution of a   *)
(* dependency group.  _resolve_dep_group is a generator: a step gives its  *)
(* next requirement, starts the generator of an included group, or ends.   *)
(* The groups of the table are lists of strings and of include-group       *)
(* objects.                                                                *)
(***************************************************************************)
\* re.sub(r"[-_.]+", "-", name): a run of "-", "_" and "." becomes one "-"
RECURSIVE DashRuns(_, _)
DashRuns(name, inRun) ==
    IF name = <<>> THEN <<>>
    ELSE IF Head(name) \in {45, 95, 46}
        THEN (IF inRun THEN <<>> ELSE <<45>>) \o DashRuns(Tail(name), TRUE)
    ELSE <<Head(name)>> \o DashRuns(Tail(name), FALSE)

\* a normalization that keeps the case of the letters
MutPep503NormalizedName(name) == DashRuns(name, FALSE)

pep503_normalized_name(name) == Lower(DashRuns(name, FALSE))

\* "a", "A", "b", "c-d", "C_.d", "x"
GroupA == <<97>>

GroupUpperA == <<65>>

GroupB == <<98>>

GroupCD == <<99, 45, 100>>

RefCD == <<67, 95, 46, 100>>

GroupX == <<120>>

\* a PEP 508 string and an include-group object of a group's list
Dep(text) == [inc |-> FALSE, text |-> text]

Include(name) == [inc |-> TRUE, text |-> name]

ErrNotConfigured == "pep735: group dependencies are not configured"

ErrDuplicate == "pep735: duplicate group names"

ErrCycle == "pep735: include cycle detected"

ErrSpecifier == "pep735: invalid PEP508 Dependency Specifier"

\* _resolve_group_name: [err, name]
resolve_group_name(table, group_name) ==
    LET actual == {k \in DOMAIN table :
                     pep503_normalized_name(k) = pep503_normalized_name(group_name)}
    IN  IF actual = {} THEN [err |-> ErrNotConfigured, name |-> <<>>]
        ELSE IF Cardinality(actual) > 1 THEN [err |-> ErrDuplicate, name |-> <<>>]
        ELSE [err |-> "", name |-> The(actual)]

\* visited_groups of the generator that is started from the generators of
\* the stack
Visited(stack) == [i \in DOMAIN stack |-> stack[i].group]

GroupError(kind, chain) == [kind |-> kind, chain |-> chain]

\* the resolution raises: the generators are left
RaiseGroupError(kind, chain) ==
    /\ gpc' = "raised"
    /\ gerror' = GroupError(kind, chain)
    /\ gstack' = <<>>

\* the start of _resolve_dep_group(group_name, visited_groups), lines
\* 75-90: the name is resolved and looked for in the visited groups
Enter(group_name, stack) ==
    \E visited \in {Visited(stack)} : \E r \in {resolve_group_name(groups, group_name)} :
       IF r.err # ""
       THEN RaiseGroupError(r.err, IF visited = <<>> THEN <<>>
                                   ELSE Append(visited, group_name))
       ELSE IF pep503_normalized_name(group_name)
                  \in {pep503_normalized_name(visited[i]) : i \in DOMAIN visited}
           THEN RaiseGroupError(ErrCycle, Append(visited, r.name))
       ELSE /\ gstack' = Append(stack, [group |-> r.name, pos |-> 1])
            /\ gpc' = "running"
            /\ gerror' = gerror

groupFrame ==
    <<hookVars, wheelInputs, backendVars, ipc, ierror, opened, dist_info, warned, destVars,
      metaVars, depsVars, groups, request>>

\* collect(): the generator of the requested group is started
ResolveGroup ==
    /\ gpc = "idle"
    /\ Enter(request, <<>>)
    /\ gout' = gout
    /\ UNCHANGED groupFrame

\* the generator on top of the stack, and the entry it is at
Top == gstack[Len(gstack)]

AtEntry == gpc = "running" /\ Top.pos <= Len(groups[Top.group])

Entry == groups[Top.group][Top.pos]

Advanced == [gstack EXCEPT ![Len(gstack)].pos = @ + 1]

\* include_chain of the generator on top of the stack
IncludeChain == IF Len(gstack) = 1 THEN <<>> ELSE Visited(gstack)

\* lines 101-112: a string that is a requirement is yielded
YieldDep ==
    /\ AtEntry
    /\ ~Entry.inc
    /\ Requirement(Entry.text).ok
    /\ gout' = Append(gout, Entry.text)
    /\ gstack' = Advanced
    /\ UNCHANGED <<gpc, gerror, groupFrame>>

\* lines 104-111: a string that is no requirement
InvalidDep ==
    /\ AtEntry
    /\ ~Entry.inc
    /\ ~Requirement(Entry.text).ok
    /\ RaiseGroupError(ErrSpecifier, IncludeChain)
    /\ UNCHANGED <<gout, groupFrame>>

\* lines 113-136: yield from the generator of the included group
IncludeGroup ==
    /\ AtEntry
    /\ Entry.inc
    /\ Enter(Entry.text, Advanced)
    /\ UNCHANGED <<gout, groupFrame>>

\* the list of the generator on top of the stack is at its end
Exhausted ==
    /\ gpc = "running"
    /\ Top.pos > Len(groups[Top.group])
    /\ gstack' = SubSeq(gstack, 1, Len(gstack) - 1)
    /\ gpc' = IF Len(gstack) = 1 THEN "returned" ELSE "running"
    /\ UNCHANGED <<gout, gerror, groupFrame>>

\* the lists a group may have
GroupLists ==
    { <<>>,
      <<Dep(FooName)>>,
      <<Dep(FooName), Include(GroupB)>>,
      <<Include(GroupB), Include(RefCD)>>,
      <<Include(GroupUpperA), Dep(ReqBar)>>,
      <<Include(GroupX)>>,
      <<Dep(ReqBad), Include(GroupA)>>,
      <<Dep(ReqBar), Include(RefCD), Dep(ReqFooSpec)>> }

\* the tables: the groups "a", "b" and "c-d", and possibly "A"
GroupTables ==
    { (GroupA :> la) @@ (GroupB :> lb) @@ (GroupCD :> lc) @@ dup :
        la \in GroupLists, lb \in GroupLists, lc \in GroupLists,
        dup \in {<<>>, GroupUpperA :> <<Dep(ReqBar)>>} }

InitGroups ==
    /\ PipelineIdle
    /\ InstallerIdle
    /\ BackendIdle
    /\ MetadataIdle
    /\ DepsIdle
    /\ groups \in GroupTables
    /\ request \in {GroupA, GroupUpperA, RefCD, GroupX}
    /\ gpc = "idle"
    /\ gstack = <<>>
    /\ gout = <<>>
    /\ gerror = NoGroupError

GroupsNext ==
    \/ ResolveGroup
    \/ YieldDep
    \/ InvalidDep
    \/ IncludeGroup
    \/ Exhausted

SpecGroups == InitGroups /\ [][GroupsNext]_vars

\* the consumer of the generator asks for its next item until it ends
FairSpecGroups == SpecGroups /\ WF_vars(GroupsNext)

(***************************************************************************)
(* The include-group graph of a table, told without the code: the group a  *)
(* name of this model stands for after normalization is written down.      *)
(***************************************************************************)
CanonicalGroup ==
    (GroupA :> "a") @@ (GroupUpperA :> "a") @@ (GroupB :> "b") @@ (GroupCD :> "c-d")
    @@ (RefCD :> "c-d") @@ (GroupX :> "x")

\* the groups of the table a name stands for
GroupsNamed(name) == {k \in DOMAIN groups : CanonicalGroup[k] = CanonicalGroup[name]}

Includes(g) == {groups[g][i].text : i \in {j \in DOMAIN groups[g] : groups[g][j].inc}}

GroupStrings(g) == {groups[g][i].text : i \in {j \in DOMAIN groups[g] : ~groups[g][j].inc}}

\* the groups a group includes
Targets(g) == UNION {GroupsNamed(name) : name \in Includes(g)}

RECURSIVE ReachFrom(_)
ReachFrom(S) ==
    LET next == S \cup UNION {Targets(g) : g \in S}
    IN  IF next = S THEN S ELSE ReachFrom(next)

\* the groups reachable from the requested group, itself included
Reachable == ReachFrom(GroupsNamed(request))

\* a reachable group is on a cycle of includes
Cyclic == \E g \in Reachable : g \in ReachFrom(Targets(g))

\* the requested name and every include of a reachable group name one group,
\* and every string of a reachable group is a requirement
WellFormed ==
    /\ Cardinality(GroupsNamed(request)) = 1
    /\ \A g \in Reachable :
         /\ \A name \in Includes(g) : Cardinality(GroupsNamed(name)) = 1
         /\ \A text \in GroupStrings(g) : Requirement(text).ok

GroupsDone == gpc \in {"returned", "raised"}

\* a path of includes from the requested group that ends in the first group
\* it meets twice
IsCycleChain(chain) ==
    /\ Len(chain) >= 2
    /\ chain[1] \in GroupsNamed(request)
    /\ \A i \in 1..(Len(chain) - 1) : chain[i + 1] \in Targets(chain[i])
    /\ \A i, j \in 1..(Len(chain) - 1) : i # j => chain[i] # chain[j]
    /\ \E i \in 1..(Len(chain) - 1) : chain[i] = chain[Len(chain)]

CycleRaised ==
    /\ gpc = "raised"
    /\ gerror.kind = ErrCycle
    /\ IsCycleChain(gerror.chain)

AllReturned ==
    /\ gpc = "returned"
    /\ gerror = NoGroupError
    /\ Range(gout) = UNION {GroupStrings(g) : g \in Reachable}

GroupOutcome ==
    /\ Len(gstack) <= Cardinality(DOMAIN groups)
    /\ GroupsDone =>
         /\ WellFormed => IF Cyclic THEN CycleRaised ELSE AllReturned
         /\ ~WellFormed =>
              /\ gpc = "raised"
              /\ gerror.kind \in {ErrNotConfigured, ErrDuplicate, ErrSpecifier, ErrCycle}
              /\ gerror.kind = ErrCycle => CycleRaised
         /\ gpc = "returned" => gstack = <<>>

====
